---- MODULE Spec2Model ----
(***************************************************************************)
(* Model of the Lean4 proof assistant:                                     *)
(*   - ProofProcessor.process_proof, the generate / verify / refine loop   *)
(*     (src/proof_assistant/proof_processor.py);                           *)
(*   - StreamingProofProcessor.stream_proof_generation and the session     *)
(*     wrapper generate_and_save (src/app.py);                             *)
(*   - the retrying endpoint wrappers formator / prove (src/beta.py).      *)
(* Each of the three is a sequential process; one action is one step of    *)
(* the process between two delegated calls (or two yields).                *)
(***************************************************************************)
EXTENDS Integers, Sequences, FiniteSets, TLC

VARIABLES
    \* ---- ProofProcessor ----
    max_attempts,      \* self.max_attempts, set by the constructor
    o_pc,              \* position inside process_proof
    proof_statement,   \* argument of process_proof
    result_parts,      \* result_parts of process_proof
    lean_code,         \* lean_code of process_proof
    current_code,      \* current_code of _verify_and_refine_proof
    attempt,           \* loop variable of _verify_and_refine_proof
    last_message,      \* message returned by the last verify_proof
    vr_parts,          \* result_parts of _verify_and_refine_proof
    calls,             \* log of the delegated calls of the current run
    earlier,           \* how the run before this one, on the same instance, ended
    \* ---- beta.formator / beta.prove ----
    w_pc,              \* position inside the wrapper
    w_fn,              \* which wrapper runs: "formator" or "prove"
    w_attempt,         \* loop variable attempt
    w_faults,          \* outcomes of the endpoint calls made so far
    w_sleeps,          \* arguments of the time.sleep calls made so far
    w_result,          \* the returned string
    \* ---- stream_proof_generation / generate_and_save ----
    lean_explore_available, \* module global of app.py
    mode,              \* "direct": /api/prove, "session": /api/sessions/<id>/prove
    s_pc,              \* position of the generator(s)
    events,            \* the SSE messages yielded to the client, in order
    s_content,         \* content of stream_proof_generation: the text of the response
    sentences,         \* the sentences the chunking loop has still to visit
    current_chunk,     \* current_chunk of stream_proof_generation
    exc,               \* the exceptions raised inside stream_proof_generation
    full_proof,        \* full_proof of prove_in_session
    proof_result,      \* column proof_result of the session's row
    prior_result,      \* session = db.get_session(session_id): the result read at the request
    db_calls,          \* the update_session_proof calls of generate_and_save in this run
    \* ---- LLMClient.generate_lean_proof / refine_proof ----
    l_pc,              \* position inside the method
    l_fn,              \* which method runs
    l_script,          \* what the endpoint answers to successive calls
    l_faults,          \* outcomes of the endpoint calls made so far
    l_result,          \* the returned string, or the message of the exception
    \* ---- LeanExecutor.verify_proof ----
    v_pc,              \* position inside verify_proof
    v_code,            \* argument lean_code
    temp_files,        \* the temporary files of this call that exist on disk
    v_result,          \* the returned (is_valid, message), or the exception
    v_probe,           \* how the probe of the call ran, and what it gave verify_proof
    v_checker,         \* how the run of the checker on the temporary file ended
    \* ---- ProofDatabase ----
    table,             \* proof_sessions: the rows in id order, row i has id i
    db_ops,            \* the create and update calls made so far
    fetched,           \* what the last get_session returned, and after how many calls
    \* ---- concurrent requests of prove_in_session on one session ----
    c_pc,              \* per request: idle, running, closed or aborted
    c_plan,            \* per request: the messages its generator will yield
    c_pos,             \* per request: how many of them it has yielded
    c_full_proof,      \* per request: the local full_proof of its closure
    c_stored,          \* column proof_result of the session's row
    c_writes,          \* the requests whose update_session_proof succeeded, in order
    c_overlapped,      \* both requests have been in the middle of their streams at once
    \* ---- configuration of the client instances ----
    environ,           \* os.environ: OPENAI_API_KEY and OPENAI_API_BASE
    clients,           \* per instance: not constructed, or its api_key and base_url
    cfg_calls,         \* the completion calls made: the instance and what the call used
    \* ---- ProofDatabase.get_sessions ----
    t_clock,           \* CURRENT_TIMESTAMP: the clock of the database, in seconds
    t_updated_at,      \* column updated_at of the rows, by id
    t_last,            \* the last create_session / update_session_proof call
    t_listed           \* what get_sessions returned since that call

orchVars == <<max_attempts, o_pc, proof_statement, result_parts, lean_code,
              current_code, attempt, last_message, vr_parts, calls, earlier>>

wrapVars == <<w_pc, w_fn, w_attempt, w_faults, w_sleeps, w_result>>

streamVars == <<lean_explore_available, mode, s_pc, events, s_content, sentences,
                current_chunk, exc, full_proof, proof_result, prior_result, db_calls>>

llmVars == <<l_pc, l_fn, l_script, l_faults, l_result>>

verifyVars == <<v_pc, v_code, temp_files, v_result, v_probe, v_checker>>

\* the variables of the components added to the three above
dbVars == <<table, db_ops, fetched>>

concVars == <<c_pc, c_plan, c_pos, c_full_proof, c_stored, c_writes, c_overlapped>>

cfgVars == <<environ, clients, cfg_calls>>

listVars == <<t_clock, t_updated_at, t_last, t_listed>>

auxVars == <<llmVars, verifyVars, dbVars, concVars, cfgVars, listVars>>

\* what the actions of one component leave alone
llmFrame == <<orchVars, wrapVars, streamVars, verifyVars, dbVars, concVars, cfgVars, listVars>>
verifyFrame == <<orchVars, wrapVars, streamVars, llmVars, dbVars, concVars, cfgVars, listVars>>
dbFrame == <<orchVars, wrapVars, streamVars, llmVars, verifyVars, concVars, cfgVars, listVars>>
concFrame == <<orchVars, wrapVars, streamVars, llmVars, verifyVars, dbVars, cfgVars, listVars>>
cfgFrame == <<orchVars, wrapVars, streamVars, llmVars, verifyVars, dbVars, concVars, listVars>>
listFrame == <<orchVars, wrapVars, streamVars, llmVars, verifyVars, dbVars, concVars, cfgVars>>

-----------------------------------------------------------------------------
(* Bounds *)

\* longest completion content, in tokens
MaxContentLen == 4

\* largest max_attempts a configuration is given
MaxAttemptsBound == 3

-----------------------------------------------------------------------------
(* Texts.  A text is a non-empty sequence of lines ('\n'.join / split('\n') *)
(* are the bijection between strings and such sequences); a line is        *)
(* <<indent, body>>: the number of leading blanks and the rest of the      *)
(* line.  Lines carry no trailing blanks.                                  *)

BlankLine == <<0, "">>
EmptyText == <<BlankLine>>

IsBlank(line) == line[2] = ""

\* str.lstrip on a text
RECURSIVE LStrip(_)
LStrip(t) ==
    IF t = <<>> THEN EmptyText
    ELSE IF IsBlank(t[1]) THEN LStrip(Tail(t))
    ELSE <<<<0, t[1][2]>>>> \o Tail(t)

\* str.rstrip on a text
RECURSIVE RStrip(_)
RStrip(t) ==
    IF t = <<>> THEN EmptyText
    ELSE IF IsBlank(t[Len(t)]) THEN RStrip(SubSeq(t, 1, Len(t) - 1))
    ELSE t

\* str.strip
Strip(t) == LStrip(RStrip(t))

\* line.strip().startswith(fence), the fence being the markdown code-block
\* marker of three backquotes, written "[fence]" here
IsFence(line) == line[2] \in {"[fence]", "[fence]lean"}

\* '\n'.join(lines): the join of the empty list is the empty string
Join(lines) == IF lines = <<>> THEN EmptyText ELSE lines

\* _clean_lean_code that strips the text and keeps its fence lines
_clean_lean_code_stripOnly(code) == Strip(code)

\* ProofProcessor._clean_lean_code
NotFence(line) == ~IsFence(line)
_clean_lean_code(code) == Strip(Join(SelectSeq(Strip(code), NotFence)))

\* raw completions of the generation service
RawPlain  == << <<0, "theorem t : p := by">>, <<1, "rfl">> >>
RawFenced == << <<0, "[fence]lean">>, <<1, "simp">>, <<0, "[fence]">>, <<0, "">> >>
RawResponses == {RawPlain, RawFenced}

Statements == {"S1", "S2"}
ErrorTexts == {"E1"}

\* LLMClient.generate_lean_proof / refine_proof / explain_proof:
\* the stripped content, or an exception that wraps the cause
LLMOutcomes ==
    [ret : {"ok"}, out : {Strip(r) : r \in RawResponses}]
      \cup [ret : {"raise"}, out : ErrorTexts]

\* subprocess.run(['lean', '--version'], ..., timeout=5): the process ends
\* with return code 0 or another one, or run raises TimeoutExpired,
\* FileNotFoundError, or another OSError (PermissionError for a lean that is
\* not executable)
ProbeRuns == {"rc0", "rc1", "TimeoutExpired", "FileNotFoundError", "PermissionError"}

\* LeanExecutor.check_lean_installation: result.returncode == 0; False in the
\* except clause for (TimeoutExpired, FileNotFoundError); any other exception
\* leaves the method
check_lean_installation(run) ==
    CASE run = "rc0" -> "true"
      [] run = "rc1" -> "false"
      [] run \in {"TimeoutExpired", "FileNotFoundError"} -> "false"
      [] OTHER -> "raise"

\* what a caller of check_lean_installation gets: True, False, or an exception
ProbeOutcomes == {check_lean_installation(run) : run \in ProbeRuns}
\* str(e) of the exception a probe raises
ProbeErrorText == "E1"

NotInstalledMsg == "lean4 not installed"
TimeoutMsg      == "verification timed out"
VerifiedMsg     == "verified"
Diagnostics     == {"D1", "D2"}

\* LeanExecutor.verify_proof: (is_valid, message), or an exception; the
\* message of a rejection is a text of the checker or of verify_proof (its
\* timeout message is one such text, the loop reads none of them), or the
\* message of a failed probe
VerifyOutcomes ==
    [ret : {"accept"}, out : {VerifiedMsg}]
      \cup [ret : {"reject"}, out : Diagnostics \cup {NotInstalledMsg}]
      \cup [ret : {"raise"}, out : ErrorTexts]

Call(op, arg, o) == [op |-> op, arg |-> arg, ret |-> o.ret, out |-> o.out]

-----------------------------------------------------------------------------
(* ProofProcessor *)

OrchInit ==
    /\ max_attempts \in 1..MaxAttemptsBound
    /\ o_pc = "idle"
    /\ proof_statement = ""
    /\ result_parts = <<>>
    /\ lean_code = EmptyText
    /\ current_code = EmptyText
    /\ attempt = 0
    /\ last_message = ""
    /\ vr_parts = <<>>
    /\ calls = <<>>
    /\ earlier = "none"

\* ProcessProofStart on an instance that keeps the loop counter and the
\* refined candidate between runs
ProcessProofStart_keepsLoopState ==
    /\ o_pc \in {"idle", "done", "raised"}
    /\ \E s \in Statements, p \in ProbeOutcomes :
         /\ proof_statement' = s
         /\ calls' = <<Call("probe", s, [ret |-> p, out |-> ""])>>
         /\ result_parts' =
              <<<<"input", s>>>> \o
              (IF p = "false" THEN <<<<"warning", "not installed">>>> ELSE <<>>) \o
              (IF p = "raise" THEN <<>> ELSE <<<<"generating", "">>>>)
         /\ o_pc' = IF p = "raise" THEN "raised" ELSE "generate"
    /\ lean_code' = EmptyText
    /\ vr_parts' = <<>>
    /\ earlier' = IF o_pc = "idle" THEN "none"
                  ELSE IF attempt > 0 THEN "refined" ELSE "unrefined"
    /\ UNCHANGED <<max_attempts, current_code, attempt, last_message>>
    /\ UNCHANGED <<wrapVars, streamVars, auxVars>>

\* process_proof: entry, and the pre-flight check_lean_installation
ProcessProofStart ==
    /\ o_pc \in {"idle", "done", "raised"}
    /\ \E s \in Statements, p \in ProbeOutcomes :
         /\ proof_statement' = s
         /\ calls' = <<Call("probe", s, [ret |-> p, out |-> ""])>>
         /\ result_parts' =
              <<<<"input", s>>>> \o
              (IF p = "false" THEN <<<<"warning", "not installed">>>> ELSE <<>>) \o
              (IF p = "raise" THEN <<>> ELSE <<<<"generating", "">>>>)
         /\ o_pc' = IF p = "raise" THEN "raised" ELSE "generate"
    /\ lean_code' = EmptyText
    /\ current_code' = EmptyText
    /\ attempt' = 0
    /\ last_message' = ""
    /\ vr_parts' = <<>>
    /\ earlier' = IF o_pc = "idle" THEN "none"
                  ELSE IF attempt > 0 THEN "refined" ELSE "unrefined"
    /\ UNCHANGED max_attempts
    /\ UNCHANGED <<wrapVars, streamVars, auxVars>>

\* the except clause of process_proof
GenerateError(msg) == <<"generate_error", msg>>

\* GenerateInitial that goes on with an empty candidate when the call raises
GenerateInitial_continues ==
    /\ o_pc = "generate"
    /\ \E o \in LLMOutcomes :
         /\ calls' = Append(calls, Call("generate", proof_statement, o))
         /\ IF o.ret = "raise"
            THEN /\ lean_code' = EmptyText
                 /\ result_parts' = Append(result_parts, <<"generated", EmptyText>>)
                 /\ o_pc' = "probe2"
            ELSE /\ lean_code' = _clean_lean_code(o.out)
                 /\ result_parts' =
                      Append(result_parts, <<"generated", _clean_lean_code(o.out)>>)
                 /\ o_pc' = "probe2"
    /\ UNCHANGED <<earlier, max_attempts, proof_statement, current_code, attempt,
                   last_message, vr_parts>>
    /\ UNCHANGED <<wrapVars, streamVars, auxVars>>

\* process_proof: generate_lean_proof and _clean_lean_code
GenerateInitial ==
    /\ o_pc = "generate"
    /\ \E o \in LLMOutcomes :
         /\ calls' = Append(calls, Call("generate", proof_statement, o))
         /\ IF o.ret = "raise"
            THEN /\ result_parts' = Append(result_parts, GenerateError(o.out))
                 /\ o_pc' = "done"
                 /\ UNCHANGED lean_code
            ELSE /\ lean_code' = _clean_lean_code(o.out)
                 /\ result_parts' =
                      Append(result_parts, <<"generated", _clean_lean_code(o.out)>>)
                 /\ o_pc' = "probe2"
    /\ UNCHANGED <<earlier, max_attempts, proof_statement, current_code, attempt,
                   last_message, vr_parts>>
    /\ UNCHANGED <<wrapVars, streamVars, auxVars>>

\* ShouldVerify without the availability test
ShouldVerify_always(p) == TRUE

\* if self.lean_executor.check_lean_installation(): p is what the probe
\* returned
ShouldVerify(p) == p = "true"

\* process_proof: the second check_lean_installation, entry of
\* _verify_and_refine_proof
SecondProbe ==
    /\ o_pc = "probe2"
    /\ \E p \in ProbeOutcomes :
         /\ calls' = Append(calls, Call("probe", proof_statement, [ret |-> p, out |-> ""]))
         /\ CASE p # "raise" /\ ShouldVerify(p) ->
                   /\ o_pc' = "verify"
                   /\ current_code' = lean_code
                   /\ attempt' = 0
                   /\ vr_parts' = <<>>
                   /\ UNCHANGED result_parts
              [] p # "raise" /\ ~ShouldVerify(p) ->
                   /\ o_pc' = "explain"
                   /\ UNCHANGED <<current_code, attempt, vr_parts, result_parts>>
              [] p = "raise" ->
                   /\ o_pc' = "done"
                   /\ result_parts' = Append(result_parts, GenerateError(ProbeErrorText))
                   /\ UNCHANGED <<current_code, attempt, vr_parts>>
    /\ UNCHANGED <<earlier, max_attempts, proof_statement, lean_code, last_message>>
    /\ UNCHANGED <<wrapVars, streamVars, auxVars>>

\* Exhausted that leaves the loop without the line that reports the failure
Exhausted_silent(parts) == parts

\* the statement after the for loop of _verify_and_refine_proof
Exhausted(parts) == Append(parts, <<"exhausted", max_attempts>>)

\* InRange with an off-by-one bound: the loop runs once more
InRange_offByOne(a) == a <= max_attempts

\* for attempt in range(self.max_attempts): is there an iteration a
InRange(a) == a < max_attempts

\* NextAfterVerify that asks for a refinement after the last attempt too
NextAfterVerify_alwaysRefine(is_valid, a) ==
    IF is_valid THEN "return" ELSE "refine"

\* NextAfterVerify without the return of the accepting branch
NextAfterVerify_noReturn(is_valid, a) ==
    IF a < max_attempts - 1 THEN "refine" ELSE "next"

\* what _verify_and_refine_proof does with the outcome of verify_proof in
\* iteration a: return, call refine_proof, or go to the next iteration
NextAfterVerify(is_valid, a) ==
    IF is_valid THEN "return"
    ELSE IF a < max_attempts - 1 THEN "refine"
    ELSE "next"

\* AcceptedParts that never reports the corrected code
AcceptedParts_noFinalCode(header, a, code) == Append(header, <<"verified", "">>)

\* the accepting branch: the success line and, when the accepted candidate
\* is a refined one, the final corrected code
AcceptedParts(header, a, code) ==
    Append(header, <<"verified", "">>) \o
    (IF a > 0 THEN <<<<"final_code", code>>>> ELSE <<>>)

\* _verify_and_refine_proof: one verify_proof call and what follows it up
\* to the next delegated call
VerifyStep ==
    /\ o_pc = "verify"
    /\ \E o \in VerifyOutcomes :
         LET header == Append(vr_parts, <<"verify_attempt", attempt + 1>>)
             failed == Append(header, <<"failed", o.out>>)
             todo   == NextAfterVerify(o.ret = "accept", attempt)
         IN
         /\ calls' = Append(calls, Call("verify", current_code, o))
         /\ CASE o.ret = "raise" ->
                   /\ result_parts' = Append(result_parts, GenerateError(o.out))
                   /\ o_pc' = "done"
                   /\ UNCHANGED <<vr_parts, attempt, last_message>>
              [] o.ret # "raise" /\ todo = "return" ->
                   LET parts == AcceptedParts(header, attempt, current_code) IN
                   /\ vr_parts' = parts
                   /\ result_parts' = Append(result_parts, <<"verification", parts>>)
                   /\ o_pc' = "explain"
                   /\ UNCHANGED <<attempt, last_message>>
              [] o.ret # "raise" /\ todo = "refine" ->
                   /\ last_message' = o.out
                   /\ vr_parts' = Append(failed, <<"refining", "">>)
                   /\ o_pc' = "refine"
                   /\ UNCHANGED <<attempt, result_parts>>
              [] o.ret # "raise" /\ todo = "next" ->
                   /\ last_message' = o.out
                   /\ attempt' = attempt + 1
                   /\ IF InRange(attempt + 1)
                      THEN /\ vr_parts' = failed
                           /\ o_pc' = "verify"
                           /\ UNCHANGED result_parts
                      ELSE /\ vr_parts' = Exhausted(failed)
                           /\ result_parts' =
                                Append(result_parts, <<"verification", Exhausted(failed)>>)
                           /\ o_pc' = "explain"
    /\ UNCHANGED <<earlier, max_attempts, proof_statement, lean_code, current_code>>
    /\ UNCHANGED <<wrapVars, streamVars, auxVars>>

\* RefineStep that passes the first candidate to refine_proof every time
RefineStep_passesInitial ==
    /\ o_pc = "refine"
    /\ \E o \in LLMOutcomes :
         /\ calls' = Append(calls, Call("refine", <<lean_code, last_message>>, o))
         /\ IF o.ret = "raise"
            THEN LET parts == Exhausted(Append(vr_parts, <<"refine_error", o.out>>)) IN
                 /\ vr_parts' = parts
                 /\ result_parts' = Append(result_parts, <<"verification", parts>>)
                 /\ o_pc' = "explain"
                 /\ UNCHANGED <<current_code, attempt>>
            ELSE LET refined == Append(vr_parts, <<"refined", "">>) IN
                 /\ current_code' = _clean_lean_code(o.out)
                 /\ attempt' = attempt + 1
                 /\ IF InRange(attempt + 1)
                    THEN /\ vr_parts' = refined
                         /\ o_pc' = "verify"
                         /\ UNCHANGED result_parts
                    ELSE /\ vr_parts' = Exhausted(refined)
                         /\ result_parts' =
                              Append(result_parts, <<"verification", Exhausted(refined)>>)
                         /\ o_pc' = "explain"
    /\ UNCHANGED <<earlier, max_attempts, proof_statement, lean_code, last_message>>
    /\ UNCHANGED <<wrapVars, streamVars, auxVars>>

\* _verify_and_refine_proof: refine_proof, _clean_lean_code and the step to
\* the next iteration
RefineStep ==
    /\ o_pc = "refine"
    /\ \E o \in LLMOutcomes :
         /\ calls' = Append(calls, Call("refine", <<current_code, last_message>>, o))
         /\ IF o.ret = "raise"
            THEN LET parts == Exhausted(Append(vr_parts, <<"refine_error", o.out>>)) IN
                 /\ vr_parts' = parts
                 /\ result_parts' = Append(result_parts, <<"verification", parts>>)
                 /\ o_pc' = "explain"
                 /\ UNCHANGED <<current_code, attempt>>
            ELSE LET refined == Append(vr_parts, <<"refined", "">>) IN
                 /\ current_code' = _clean_lean_code(o.out)
                 /\ attempt' = attempt + 1
                 /\ IF InRange(attempt + 1)
                    THEN /\ vr_parts' = refined
                         /\ o_pc' = "verify"
                         /\ UNCHANGED result_parts
                    ELSE /\ vr_parts' = Exhausted(refined)
                         /\ result_parts' =
                              Append(result_parts, <<"verification", Exhausted(refined)>>)
                         /\ o_pc' = "explain"
    /\ UNCHANGED <<earlier, max_attempts, proof_statement, lean_code, last_message>>
    /\ UNCHANGED <<wrapVars, streamVars, auxVars>>

\* process_proof: explain_proof(lean_code) and the return
ExplainStep ==
    /\ o_pc = "explain"
    /\ \E o \in LLMOutcomes :
         /\ calls' = Append(calls, Call("explain", lean_code, o))
         /\ result_parts' =
              IF o.ret = "raise"
              THEN Append(result_parts, <<"explain_error", o.out>>)
              ELSE result_parts \o <<<<"explanation_title", "">>, <<"explanation", o.out>>>>
    /\ o_pc' = "done"
    /\ UNCHANGED <<earlier, max_attempts, proof_statement, lean_code, current_code,
                   attempt, last_message, vr_parts>>
    /\ UNCHANGED <<wrapVars, streamVars, auxVars>>

NextOrch ==
    \/ ProcessProofStart
    \/ GenerateInitial
    \/ SecondProbe
    \/ VerifyStep
    \/ RefineStep
    \/ ExplainStep

-----------------------------------------------------------------------------
(* beta.formator / beta.prove: the retrying endpoint wrappers *)

max_retries == 3

Wrappers == {"formator", "prove"}

\* the failure text each wrapper starts its markers with
FailedText(fn) == IF fn = "formator" THEN "formalize failed" ELSE "proof failed"

\* completion.choices[0].message.content: "" stands for empty or None
Payloads == {"P1", "P2"}
Contents == Payloads \cup {""}
ExcTexts == {"E1", "E2"}

\* what one chat.completions.create call does: a completion, or an exception
\* of class APIConnectionError, RateLimitError, another APIError, or any
\* other Exception (an empty choices list raises IndexError in the try body)
EndpointOutcomes ==
    [cls : {"ok"}, text : Contents]
      \cup [cls : {"APIConnectionError", "RateLimitError"}, text : {"E1"}]
      \cup [cls : {"APIError", "Exception"}, text : ExcTexts]

ConnectionMarker(fn) == FailedText(fn) \o " - connection error"
RateLimitMarker(fn)  == FailedText(fn) \o " - rate limited"
APIErrorMarker(fn, e)   == FailedText(fn) \o " - API error: " \o e
UnexpectedMarker(fn, e) == FailedText(fn) \o " - unexpected error: " \o e

Return(r)  == [act |-> "return", wait |-> 0, result |-> r]
Retry(w)   == [act |-> "retry", wait |-> w, result |-> ""]
Raise      == [act |-> "raise", wait |-> 0, result |-> ""]

\* the body of the try statement after the endpoint answered
OnCompletion(fn, rslt) == Return(IF rslt # "" THEN rslt ELSE FailedText(fn))

\* OnConnectionError that doubles from 2s
OnConnectionError_wrongBase(fn, a) ==
    IF a < max_retries - 1 THEN Retry(2 ^ (a + 1)) ELSE Return(FailedText(fn) \o " - connection error")

\* except APIConnectionError
OnConnectionError(fn, a) ==
    IF a < max_retries - 1 THEN Retry(2 ^ a) ELSE Return(ConnectionMarker(fn))

\* OnRateLimitError that sleeps after the last attempt too
OnRateLimitError_alwaysSleeps(fn, a) == Retry(10 * (a + 1))

\* OnRateLimitError that scales by the zero-based attempt
OnRateLimitError_zeroBased(fn, a) ==
    IF a < max_retries - 1 THEN Retry(10 * a) ELSE Return(FailedText(fn) \o " - rate limited")

\* except RateLimitError
OnRateLimitError(fn, a) ==
    IF a < max_retries - 1 THEN Retry(10 * (a + 1)) ELSE Return(RateLimitMarker(fn))

\* OnAPIError that backs off and tries again
OnAPIError_retries(fn, e) == Retry(1)

\* except APIError
OnAPIError(fn, e) == Return(APIErrorMarker(fn, e))

\* except Exception
OnException(fn, e) == Return(UnexpectedMarker(fn, e))

\* Iteration without the last except clause
Iteration_noCatchAll(fn, a, o) ==
    CASE o.cls = "ok"                 -> OnCompletion(fn, o.text)
      [] o.cls = "APIConnectionError" -> OnConnectionError(fn, a)
      [] o.cls = "RateLimitError"     -> OnRateLimitError(fn, a)
      [] o.cls = "APIError"           -> OnAPIError(fn, o.text)
      [] OTHER                        -> Raise

\* one iteration of the for loop: the try statement with its except clauses,
\* in the order the clauses are written
Iteration(fn, a, o) ==
    CASE o.cls = "ok"                 -> OnCompletion(fn, o.text)
      [] o.cls = "APIConnectionError" -> OnConnectionError(fn, a)
      [] o.cls = "RateLimitError"     -> OnRateLimitError(fn, a)
      [] o.cls = "APIError"           -> OnAPIError(fn, o.text)
      [] o.cls = "Exception"          -> OnException(fn, o.text)
      [] OTHER                        -> Raise

WrapInit ==
    /\ w_pc = "idle"
    /\ w_fn = "formator"
    /\ w_attempt = 0
    /\ w_faults = <<>>
    /\ w_sleeps = <<>>
    /\ w_result = ""

\* formator(problem) / prove(formal_statement) is called
WrapperCall ==
    /\ w_pc \in {"idle", "returned", "raised"}
    /\ \E fn \in Wrappers : w_fn' = fn
    /\ w_pc' = "loop"
    /\ w_attempt' = 0
    /\ w_faults' = <<>>
    /\ w_sleeps' = <<>>
    /\ w_result' = ""
    /\ UNCHANGED <<orchVars, streamVars, auxVars>>

\* one pass through the for loop: the endpoint call, its handler, the sleep
\* and the step to the next attempt (or the return after the loop)
WrapperAttempt ==
    /\ w_pc = "loop"
    /\ \E o \in EndpointOutcomes :
         LET h == Iteration(w_fn, w_attempt, o) IN
         /\ w_faults' = Append(w_faults, o)
         /\ CASE h.act = "return" ->
                   /\ w_result' = h.result
                   /\ w_pc' = "returned"
                   /\ UNCHANGED <<w_attempt, w_sleeps>>
              [] h.act = "retry" ->
                   /\ w_sleeps' = Append(w_sleeps, h.wait)
                   /\ w_attempt' = w_attempt + 1
                   /\ IF w_attempt + 1 < max_retries
                      THEN w_pc' = "loop" /\ UNCHANGED w_result
                      ELSE w_pc' = "returned" /\ w_result' = FailedText(w_fn)
              [] h.act = "raise" ->
                   /\ w_pc' = "raised"
                   /\ UNCHANGED <<w_attempt, w_sleeps, w_result>>
    /\ UNCHANGED w_fn
    /\ UNCHANGED <<orchVars, streamVars, auxVars>>

NextWrap ==
    \/ WrapperCall
    \/ WrapperAttempt

-----------------------------------------------------------------------------
(* app.py: StreamingProofProcessor.stream_proof_generation and              *)
(* prove_in_session.generate_and_save                                       *)
(*                                                                          *)
(* A string is a sequence of tokens.  "x" is one ordinary character, "X" a  *)
(* run of LongRun ordinary characters, "." the sentence terminator (the     *)
(* ideographic full stop), "NL" a newline, " " a blank; Marker is the text  *)
(* |PARAGRAPH| the code substitutes for a blank line.                       *)

LongRun == 100
Marker == "|PARAGRAPH|"
Alphabet == {"x", "X", ".", "NL"}

Weight(tok) ==
    CASE tok = "X" -> LongRun [] tok = "XX" -> 2 * LongRun [] tok = Marker -> 11 [] OTHER -> 1

\* len(s)
RECURSIVE StrLen(_)
StrLen(s) == IF s = <<>> THEN 0 ELSE Weight(Head(s)) + StrLen(Tail(s))

RECURSIVE SeqsUpTo(_)
SeqsUpTo(n) ==
    IF n = 0 THEN {<<>>}
    ELSE LET shorter == SeqsUpTo(n - 1) IN
         shorter \cup {Append(q, a) : q \in {r \in shorter : Len(r) = n - 1}, a \in Alphabet}

ContentStrings == SeqsUpTo(MaxContentLen)

\* content.replace('\n\n', '|PARAGRAPH|'): leftmost, non-overlapping
RECURSIVE MarkParagraphs(_)
MarkParagraphs(s) ==
    IF \A i \in 1..Len(s) : s[i] # "NL" THEN s
    ELSE IF Len(s) >= 2 /\ s[1] = "NL" /\ s[2] = "NL"
         THEN <<Marker>> \o MarkParagraphs(SubSeq(s, 3, Len(s)))
         ELSE <<s[1]>> \o MarkParagraphs(Tail(s))

\* .replace('\n', ' ')
NewlinesToBlanks(s) == [i \in 1..Len(s) |-> IF s[i] = "NL" THEN " " ELSE s[i]]

\* .split(sep): the list of the pieces between the separators
\* (piece is what comes before s in the first piece)
SplitOn(s, sep, piece) ==
    LET seps == {i \in 1..Len(s) : s[i] = sep}
        \* the position of the k-th separator; 0 and Len(s) + 1 bound the string
        At(k) == IF k = 0 THEN 0
                 ELSE IF k > Cardinality(seps) THEN Len(s) + 1
                 ELSE CHOOSE i \in seps : Cardinality({j \in seps : j < i}) = k - 1
    IN [k \in 1..(Cardinality(seps) + 1) |->
           (IF k = 1 THEN piece ELSE <<>>) \o SubSeq(s, At(k - 1) + 1, At(k) - 1)]

\* sentence.replace('|PARAGRAPH|', '\n\n')
RECURSIVE UnmarkParagraphs(_)
UnmarkParagraphs(s) ==
    IF s = <<>> THEN <<>>
    ELSE (IF Head(s) = Marker THEN <<"NL", "NL">> ELSE <<Head(s)>>)
           \o UnmarkParagraphs(Tail(s))

IsSpace(tok) == tok \in {" ", "NL"}

\* str.strip on a token string
RECURSIVE StripL(_)
StripL(s) == IF s # <<>> /\ IsSpace(Head(s)) THEN StripL(Tail(s)) ELSE s
RECURSIVE StripR(_)
StripR(s) ==
    IF s # <<>> /\ IsSpace(s[Len(s)]) THEN StripR(SubSeq(s, 1, Len(s) - 1)) ELSE s
StripStr(s) == StripL(StripR(s))

\* '|PARAGRAPH|' in sentence
HasMarker(s) == \E i \in 1..Len(s) : s[i] = Marker

\* content.replace('\n\n', '|PARAGRAPH|').replace('\n', ' ').split(full stop)
SplitSentences(content) == SplitOn(NewlinesToBlanks(MarkParagraphs(content)), ".", <<>>)

\* the chunk length above which the buffer is flushed
ChunkThreshold == 200

\* the condition of the if statement that yields a proof_chunk inside the loop
ShouldFlush(chunk, sentence) == StrLen(chunk) > ChunkThreshold \/ HasMarker(sentence)

\* the for loop over the sentences, run from the current position to its
\* next yield, or to its end
RECURSIVE RunLoop(_, _)
RunLoop(ss, chunk) ==
    IF ss = <<>> THEN [flush |-> FALSE, out |-> <<>>, rest |-> <<>>, chunk |-> chunk]
    ELSE IF StripStr(Head(ss)) = <<>> THEN RunLoop(Tail(ss), chunk)
    ELSE LET sentence == StripStr(UnmarkParagraphs(Head(ss)))
             grown == chunk \o sentence \o <<".">>
         IN IF ShouldFlush(grown, sentence)
            THEN [flush |-> TRUE, out |-> grown, rest |-> Tail(ss), chunk |-> <<>>]
            ELSE RunLoop(Tail(ss), grown)

\* StreamingProofProcessor._format_sse_message: one SSE record
_format_sse_message(content, message_type) ==
    [type |-> message_type, content |-> content]

StreamExcTexts == {"E1", "E2"}
PromptNotFound == "prompt file not found"
NoneHasNoSplit == "NoneType has no attribute split"

\* prove_in_session: the row as get_session found it
NullResult == [null |-> TRUE, value |-> <<>>]

StreamInit ==
    /\ lean_explore_available \in BOOLEAN
    /\ mode = "direct"
    /\ s_pc = "idle"
    /\ events = <<>>
    /\ s_content = <<>>
    /\ sentences = <<>>
    /\ current_chunk = <<>>
    /\ exc = <<>>
    /\ full_proof = <<>>
    /\ proof_result = NullResult
    /\ prior_result = NullResult
    /\ db_calls = <<>>

\* Yield with a heartbeat message after every 50th proof_chunk
Yield_withHeartbeat(msg) ==
    LET chunks == Cardinality({i \in 1..Len(events) : events[i].type = "proof_chunk"})
        out == IF msg.type = "proof_chunk" /\ (chunks + 1) % 50 = 0
               THEN <<msg, [type |-> "heartbeat", content |-> <<>>]>>
               ELSE <<msg>>
    IN /\ events' = events \o out
       /\ full_proof' = IF mode = "session" THEN full_proof \o out ELSE full_proof

\* a yield of stream_proof_generation: in a session the message goes through
\* the for loop of generate_and_save, which appends it to full_proof first
Yield(msg) ==
    /\ events' = Append(events, msg)
    /\ full_proof' = IF mode = "session" THEN Append(full_proof, msg) ELSE full_proof

\* a yield of generate_and_save itself
YieldOuter(msg) == events' = Append(events, msg)

\* ErrorContent that drops the message of the exception
ErrorContent_noMessage(error_msg) == <<"error: ">>

\* the content of the error message: a fixed prefix, then str(e)
ErrorContent(error_msg) == <<"error: ", error_msg>>

\* Except whose clause ends after the error yield
Except_noComplete(error_msg) ==
    /\ exc' = Append(exc, error_msg)
    /\ events' = Append(events, [type |-> "error", content |-> ErrorContent(error_msg)])
    /\ full_proof' = IF mode = "session"
                     THEN Append(full_proof, [type |-> "error", content |-> ErrorContent(error_msg)])
                     ELSE full_proof
    /\ s_pc' = "last_yield"

\* the except clause of stream_proof_generation, up to its first yield
Except(error_msg) ==
    /\ exc' = Append(exc, error_msg)
    /\ Yield(_format_sse_message(ErrorContent(error_msg), "error"))
    /\ s_pc' = "error_sent"

AIStartStatus == _format_sse_message(<<"starting AI proof">>, "status")

\* the request arrives: /api/prove starts stream_proof_generation,
\* /api/sessions/<id>/prove starts generate_and_save; up to the first yield
StreamRequest ==
    /\ s_pc = "idle"
    /\ \E m \in {"direct", "session"} :
         /\ mode' = m
         /\ CASE m = "direct" ->
                   /\ events' = <<_format_sse_message(<<"generating">>, "status")>>
                   /\ s_pc' = "load_prompt"
              [] m = "session" /\ lean_explore_available ->
                   /\ events' = <<_format_sse_message(<<"searching">>, "status")>>
                   /\ s_pc' = "search"
              [] m = "session" /\ ~lean_explore_available ->
                   /\ events' = <<AIStartStatus>>
                   /\ s_pc' = "inner_start"
    /\ full_proof' = <<>>
    /\ prior_result' = proof_result
    /\ db_calls' = <<>>
    /\ s_content' = <<>>
    /\ UNCHANGED <<lean_explore_available, sentences, current_chunk, exc, proof_result>>
    /\ UNCHANGED <<orchVars, wrapVars, auxVars>>

\* generate_and_save: lean_explore.search and what follows up to the next yield
SearchKnowledge ==
    /\ s_pc = "search"
    /\ \E r \in {"found", "none", "raise"} :
         CASE r = "found" ->
                /\ YieldOuter(_format_sse_message(<<"knowledge">>, "knowledge_chunk"))
                /\ s_pc' = "knowledge_sent"
           [] r = "none" ->
                /\ YieldOuter(AIStartStatus)
                /\ s_pc' = "inner_start"
           [] r = "raise" ->
                /\ YieldOuter(_format_sse_message(<<"search problem">>, "status"))
                /\ s_pc' = "search_failed"
    /\ UNCHANGED <<prior_result, db_calls, s_content>>
    /\ UNCHANGED <<lean_explore_available, mode, sentences, current_chunk, exc,
                   full_proof, proof_result>>
    /\ UNCHANGED <<orchVars, wrapVars, auxVars>>

\* generate_and_save: after the knowledge_chunk yield
AfterKnowledge ==
    /\ s_pc = "knowledge_sent"
    /\ full_proof' =
         Append(full_proof, _format_sse_message(<<"knowledge">>, "knowledge_chunk"))
    /\ YieldOuter(AIStartStatus)
    /\ s_pc' = "inner_start"
    /\ UNCHANGED <<prior_result, db_calls, s_content>>
    /\ UNCHANGED <<lean_explore_available, mode, sentences, current_chunk, exc,
                   proof_result>>
    /\ UNCHANGED <<orchVars, wrapVars, auxVars>>

\* generate_and_save: after the yield of its except clause
AfterSearchFailure ==
    /\ s_pc = "search_failed"
    /\ YieldOuter(AIStartStatus)
    /\ s_pc' = "inner_start"
    /\ UNCHANGED <<prior_result, db_calls, s_content>>
    /\ UNCHANGED <<lean_explore_available, mode, sentences, current_chunk, exc,
                   full_proof, proof_result>>
    /\ UNCHANGED <<orchVars, wrapVars, auxVars>>

\* stream_proof_generation, started by generate_and_save: its first yield
InnerStart ==
    /\ s_pc = "inner_start"
    /\ Yield(_format_sse_message(<<"generating">>, "status"))
    /\ s_pc' = "load_prompt"
    /\ UNCHANGED <<prior_result, db_calls, s_content>>
    /\ UNCHANGED <<lean_explore_available, mode, sentences, current_chunk, exc,
                   proof_result>>
    /\ UNCHANGED <<orchVars, wrapVars, auxVars>>

\* stream_proof_generation: _load_prompt, str.format, the second status
LoadPrompt ==
    /\ s_pc = "load_prompt"
    /\ \E r \in {"ok"} \cup {PromptNotFound} \cup StreamExcTexts :
         IF r = "ok"
         THEN /\ Yield(_format_sse_message(<<"connecting">>, "status"))
              /\ s_pc' = "completion"
              /\ UNCHANGED exc
         ELSE Except(r)
    /\ UNCHANGED <<prior_result, db_calls, s_content>>
    /\ UNCHANGED <<lean_explore_available, mode, sentences, current_chunk,
                   proof_result>>
    /\ UNCHANGED <<orchVars, wrapVars, auxVars>>

SentenceCount == 50

RECURSIVE Repeat(_, _)
Repeat(s, n) == IF n = 0 THEN <<>> ELSE s \o Repeat(s, n - 1)

\* a long answer: SentenceCount sentences of two long runs each ("XX"),
\* every one longer than the chunk threshold with its full stop
ManySentences == Repeat(<<"XX", ".">>, SentenceCount)

\* an answer of two paragraphs: one sentence, a blank line, two sentences
TwoParagraphs == <<"x", ".", "NL", "NL", "x", ".", "x", ".">>

\* the responses of litellm.completion: no choices, a choice whose content
\* is None, or a choice with a content string
Responses ==
    [choices : {0}, content : {<<>>}, none : {FALSE}]
      \cup [choices : {1}, content : {<<>>}, none : {TRUE}]
      \cup [choices : {1}, content : ContentStrings \cup {ManySentences, TwoParagraphs},
             none : {FALSE}]

\* stream_proof_generation: completion(...), the proof_start yield
Completion ==
    /\ s_pc = "completion"
    /\ \/ \E e \in StreamExcTexts :
            /\ Except(e)
            /\ UNCHANGED <<sentences, s_content>>
       \/ \E response \in Responses :
            /\ Yield(_format_sse_message(<<"AI is generating">>, "proof_start"))
            /\ IF response.choices = 0
               THEN s_pc' = "chunks_done" /\ sentences' = <<>>
               ELSE IF response.none
               THEN s_pc' = "content_none" /\ sentences' = <<>>
               ELSE s_pc' = "chunking" /\ sentences' = SplitSentences(response.content)
            /\ s_content' = IF response.choices = 0 \/ response.none
                             THEN <<>> ELSE response.content
            /\ UNCHANGED exc
    /\ UNCHANGED <<prior_result, db_calls>>
    /\ UNCHANGED <<lean_explore_available, mode, current_chunk, proof_result>>
    /\ UNCHANGED <<orchVars, wrapVars, auxVars>>

\* stream_proof_generation: content.split() on a content that is None
ContentNone ==
    /\ s_pc = "content_none"
    /\ Except(NoneHasNoSplit)
    /\ UNCHANGED <<prior_result, db_calls, s_content>>
    /\ UNCHANGED <<lean_explore_available, mode, sentences, current_chunk,
                   proof_result>>
    /\ UNCHANGED <<orchVars, wrapVars, auxVars>>

\* ChunkStep that leaves the remaining buffer behind after the loop
ChunkStep_dropsTail ==
    /\ s_pc = "chunking"
    /\ LET r == RunLoop(sentences, current_chunk) IN
         CASE r.flush ->
                /\ Yield(_format_sse_message(r.out, "proof_chunk"))
                /\ sentences' = r.rest
                /\ current_chunk' = <<>>
                /\ s_pc' = "chunking"
           [] ~r.flush ->
                /\ Yield(_format_sse_message(<<>>, "proof_end"))
                /\ sentences' = <<>>
                /\ current_chunk' = r.chunk
                /\ s_pc' = "end_sent"
    /\ UNCHANGED <<prior_result, db_calls, s_content>>
    /\ UNCHANGED <<lean_explore_available, mode, exc, proof_result>>
    /\ UNCHANGED <<orchVars, wrapVars, auxVars>>

\* stream_proof_generation: the chunking loop up to its next yield, the
\* yield of the remaining buffer after the loop, or proof_end
ChunkStep ==
    /\ s_pc = "chunking"
    /\ LET r == RunLoop(sentences, current_chunk) IN
         CASE r.flush ->
                /\ Yield(_format_sse_message(r.out, "proof_chunk"))
                /\ sentences' = r.rest
                /\ current_chunk' = <<>>
                /\ s_pc' = "chunking"
           [] ~r.flush /\ r.chunk # <<>> ->
                /\ Yield(_format_sse_message(r.chunk, "proof_chunk"))
                /\ sentences' = <<>>
                /\ current_chunk' = r.chunk
                /\ s_pc' = "chunks_done"
           [] ~r.flush /\ r.chunk = <<>> ->
                /\ Yield(_format_sse_message(<<>>, "proof_end"))
                /\ sentences' = <<>>
                /\ current_chunk' = <<>>
                /\ s_pc' = "end_sent"
    /\ UNCHANGED <<prior_result, db_calls, s_content>>
    /\ UNCHANGED <<lean_explore_available, mode, exc, proof_result>>
    /\ UNCHANGED <<orchVars, wrapVars, auxVars>>

\* ProofEnd that forgets the yield when the buffer was flushed after the loop
ProofEnd_noYield ==
    /\ s_pc = "chunks_done"
    /\ s_pc' = "end_sent"
    /\ UNCHANGED <<prior_result, db_calls, s_content>>
    /\ UNCHANGED <<lean_explore_available, mode, events, sentences, current_chunk,
                   exc, full_proof, proof_result>>
    /\ UNCHANGED <<orchVars, wrapVars, auxVars>>

\* stream_proof_generation: the proof_end yield
ProofEnd ==
    /\ s_pc = "chunks_done"
    /\ Yield(_format_sse_message(<<>>, "proof_end"))
    /\ s_pc' = "end_sent"
    /\ UNCHANGED <<prior_result, db_calls, s_content>>
    /\ UNCHANGED <<lean_explore_available, mode, sentences, current_chunk, exc,
                   proof_result>>
    /\ UNCHANGED <<orchVars, wrapVars, auxVars>>

\* Success that raises instead of yielding: the except clause runs
Success_raises ==
    /\ s_pc = "end_sent"
    /\ \E e \in {"E1"} :
         /\ exc' = Append(exc, e)
         /\ events' = events \o <<[type |-> "success", content |-> <<"proof generated">>],
                                  [type |-> "error", content |-> <<"error: ", e>>]>>
         /\ full_proof' = full_proof
    /\ s_pc' = "error_sent"
    /\ UNCHANGED <<prior_result, db_calls, s_content>>
    /\ UNCHANGED <<lean_explore_available, mode, sentences, current_chunk,
                   proof_result>>
    /\ UNCHANGED <<orchVars, wrapVars, auxVars>>

\* stream_proof_generation: the success yield
Success ==
    /\ s_pc = "end_sent"
    /\ Yield(_format_sse_message(<<"proof generated">>, "success"))
    /\ s_pc' = "success_sent"
    /\ UNCHANGED <<prior_result, db_calls, s_content>>
    /\ UNCHANGED <<lean_explore_available, mode, sentences, current_chunk, exc,
                   proof_result>>
    /\ UNCHANGED <<orchVars, wrapVars, auxVars>>

\* stream_proof_generation: the complete yield, of the try body or of the
\* except clause
Complete ==
    /\ s_pc \in {"success_sent", "error_sent"}
    /\ Yield(_format_sse_message(<<>>, "complete"))
    /\ s_pc' = "last_yield"
    /\ UNCHANGED <<prior_result, db_calls, s_content>>
    /\ UNCHANGED <<lean_explore_available, mode, sentences, current_chunk, exc,
                   proof_result>>
    /\ UNCHANGED <<orchVars, wrapVars, auxVars>>

\* StoredAfter that stores all but the last event
StoredAfter_dropsLast(saved, fp) ==
    IF saved /\ fp # <<>>
    THEN [null |-> FALSE, value |-> SubSeq(fp, 1, Len(fp) - 1)]
    ELSE proof_result

\* db.update_session_proof(session_id, full_proof): the row after the call;
\* the UPDATE is one transaction, a call that raises leaves the row as it was
StoredAfter(saved, fp) ==
    IF saved THEN [null |-> FALSE, value |-> fp] ELSE proof_result

\* the call as the log keeps it: its argument and how many events the run
\* had produced when it was made
UpdateCall(fp) == [value |-> fp, at |-> Len(events)]

\* Finish that writes only when the generation did not fail
Finish_onlyOnSuccess ==
    /\ s_pc = "last_yield"
    /\ s_pc' = "closed"
    /\ IF mode = "session" /\ exc = <<>>
       THEN /\ \E saved \in BOOLEAN : proof_result' = StoredAfter(saved, full_proof)
            /\ db_calls' = Append(db_calls, UpdateCall(full_proof))
       ELSE UNCHANGED <<proof_result, db_calls>>
    /\ UNCHANGED <<prior_result, s_content, lean_explore_available, mode, events, sentences,
                   current_chunk, exc, full_proof>>
    /\ UNCHANGED <<orchVars, wrapVars, auxVars>>

\* the generator is resumed after complete: stream_proof_generation returns;
\* generate_and_save calls db.update_session_proof (which may raise) and ends
Finish ==
    /\ s_pc = "last_yield"
    /\ s_pc' = "closed"
    /\ IF mode = "session"
       THEN /\ \E saved \in BOOLEAN : proof_result' = StoredAfter(saved, full_proof)
            /\ db_calls' = Append(db_calls, UpdateCall(full_proof))
       ELSE UNCHANGED <<proof_result, db_calls>>
    /\ UNCHANGED <<prior_result, s_content, lean_explore_available, mode, events, sentences,
                   current_chunk, exc, full_proof>>
    /\ UNCHANGED <<orchVars, wrapVars, auxVars>>

\* Disconnect with the finalize write in a finally clause
Disconnect_finalizes ==
    /\ s_pc \notin {"idle", "closed", "aborted"}
    /\ s_pc' = "aborted"
    /\ IF mode = "session"
       THEN /\ proof_result' = StoredAfter(TRUE, full_proof)
            /\ db_calls' = Append(db_calls, UpdateCall(full_proof))
       ELSE UNCHANGED <<proof_result, db_calls>>
    /\ UNCHANGED <<prior_result, s_content>>
    /\ UNCHANGED <<lean_explore_available, mode, events,
                   sentences, current_chunk, exc, full_proof>>
    /\ UNCHANGED <<orchVars, wrapVars, auxVars>>

\* the client goes away while the generator is suspended at a yield: the
\* server closes the generator, GeneratorExit passes every except Exception
Disconnect ==
    /\ s_pc \notin {"idle", "closed", "aborted"}
    /\ s_pc' = "aborted"
    /\ UNCHANGED <<prior_result, db_calls, s_content>>
    /\ UNCHANGED <<lean_explore_available, mode, events,
                   sentences, current_chunk, exc, full_proof, proof_result>>
    /\ UNCHANGED <<orchVars, wrapVars, auxVars>>

StaticContents == {<<"x">>}

\* create_session that stores the static content as a status message
create_session_asStatus ==
    /\ s_pc = "idle"
    /\ proof_result = NullResult
    /\ \E static_content \in StaticContents :
         proof_result' =
           StoredAfter(TRUE, <<_format_sse_message(static_content, "status")>>)
    /\ UNCHANGED <<prior_result, db_calls, s_content>>
    /\ UNCHANGED <<lean_explore_available, mode, s_pc, events,
                   sentences, current_chunk, exc, full_proof>>
    /\ UNCHANGED <<orchVars, wrapVars, auxVars>>

\* POST /api/sessions with isStatic and staticContent: the new row gets the
\* static content, formatted as one proof_chunk message, as its result
create_session ==
    /\ s_pc = "idle"
    /\ proof_result = NullResult
    /\ \E static_content \in StaticContents :
         proof_result' =
           StoredAfter(TRUE, <<_format_sse_message(static_content, "proof_chunk")>>)
    /\ UNCHANGED <<prior_result, db_calls, s_content>>
    /\ UNCHANGED <<lean_explore_available, mode, s_pc, events,
                   sentences, current_chunk, exc, full_proof>>
    /\ UNCHANGED <<orchVars, wrapVars, auxVars>>

NextStream ==
    \/ create_session
    \/ StreamRequest
    \/ Disconnect
    \/ SearchKnowledge
    \/ AfterKnowledge
    \/ AfterSearchFailure
    \/ InnerStart
    \/ LoadPrompt
    \/ Completion
    \/ ContentNone
    \/ ChunkStep
    \/ ProofEnd
    \/ Success
    \/ Complete
    \/ Finish

-----------------------------------------------------------------------------
(* llm_client.py: LLMClient.generate_lean_proof / refine_proof, next to the *)
(* wrapper of beta.py run on the same answers of the endpoint               *)

LLMMethods == {"generate_lean_proof", "refine_proof"}

\* a content with blanks around it
PaddedPayload == " P1 "

\* what one completion call answers; as EndpointOutcomes, and a content
\* that is not stripped yet
LLMEndpointOutcomes ==
    EndpointOutcomes \cup [cls : {"ok"}, text : {PaddedPayload}]

\* content.strip()
StripContent(text) == IF text = PaddedPayload THEN "P1" ELSE text

\* str(e) of the AttributeError that None.strip() raises
NoneHasNoStrip == "NoneType has no attribute strip"

\* raise Exception(f"...: {str(e)}") of the except clause
WrappedError(fn, e) ==
    (IF fn = "generate_lean_proof" THEN "LLM call failed: "
                                   ELSE "proof refinement failed: ") \o e

RaiseWith(msg) == [act |-> "raise", wait |-> 0, result |-> msg]

\* LLMMethod that returns a failure text where the method raises
LLMMethod_swallows(fn, o) ==
    IF o.cls = "ok" /\ o.text # ""
    THEN {Return(StripContent(o.text))}
    ELSE {Return(WrappedError(fn, o.text))}

\* the try statement of generate_lean_proof / refine_proof: the outcomes it
\* can have when the endpoint answers o ("" is an empty or a None content)
LLMMethod(fn, o) ==
    IF o.cls = "ok"
    THEN IF o.text # ""
         THEN {Return(StripContent(o.text))}
         ELSE {Return(""), RaiseWith(WrappedError(fn, NoneHasNoStrip))}
    ELSE {RaiseWith(WrappedError(fn, o.text))}

\* formator / prove run to their end on the answers script[1], script[2], ...
RECURSIVE WrapperRun(_, _, _)
WrapperRun(fn, script, a) ==
    LET h == Iteration(fn, a, script[a + 1]) IN
    IF h.act = "retry"
    THEN IF a + 1 < max_retries
         THEN WrapperRun(fn, script, a + 1)
         ELSE [attempts |-> a + 1, raised |-> FALSE, result |-> FailedText(fn)]
    ELSE [attempts |-> a + 1, raised |-> h.act = "raise", result |-> h.result]

Scripts == [1..max_retries -> LLMEndpointOutcomes]

LLMInit ==
    /\ l_pc = "idle"
    /\ l_fn = "generate_lean_proof"
    /\ l_script = <<>>
    /\ l_faults = <<>>
    /\ l_result = ""

\* generate_lean_proof(proof_statement) / refine_proof(original_proof,
\* error_message) is called; the endpoint will answer as l_script says
LLMCall ==
    /\ l_pc = "idle"
    /\ \E fn \in LLMMethods : l_fn' = fn
    /\ \E script \in Scripts : l_script' = script
    /\ l_pc' = "call"
    /\ l_faults' = <<>>
    /\ l_result' = ""
    /\ UNCHANGED llmFrame

\* the completion call and the return or raise that follows it
LLMAttempt ==
    /\ l_pc = "call"
    /\ LET o == l_script[Len(l_faults) + 1] IN
         /\ l_faults' = Append(l_faults, o)
         /\ \E h \in LLMMethod(l_fn, o) :
              /\ l_result' = h.result
              /\ l_pc' = IF h.act = "raise" THEN "raised" ELSE "returned"
    /\ UNCHANGED <<l_fn, l_script>>
    /\ UNCHANGED llmFrame

NextLLM ==
    \/ LLMCall
    \/ LLMAttempt

-----------------------------------------------------------------------------
(* lean_executor.py: LeanExecutor.verify_proof *)

TempFile == "tmp.lean"

\* what the checker writes to stderr and to stdout: nothing, a diagnostic,
\* or any other text, the text of the timeout message among them (the
\* checker elaborates the candidate, which can make it print anything)
CheckerTexts == {""} \cup Diagnostics \cup {TimeoutMsg}

\* f"...: {str(e)}" of the except Exception clause
VerifyErrorMsg(e) == "error during verification: " \o e

\* subprocess.run(['lean', temp_file], ...): the process completes with a
\* return code and its two outputs, or run raises TimeoutExpired or another
\* exception e
CheckerRuns ==
    [kind : {"completed"}, rc : {0, 1}, err : CheckerTexts, out : CheckerTexts, e : {""}]
      \cup [kind : {"timeout"}, rc : {0}, err : {""}, out : {""}, e : {""}]
      \cup [kind : {"error"}, rc : {0}, err : {""}, out : {""}, e : ErrorTexts]

NoChecker == [kind |-> "none", rc |-> 0, err |-> "", out |-> "", e |-> ""]

\* CheckerResult that lets the timeout fall into the except Exception clause
CheckerResult_timeoutAsError(run) ==
    CASE run.kind = "completed" /\ run.rc = 0 -> <<TRUE, VerifiedMsg>>
      [] run.kind = "completed" /\ run.rc # 0 ->
           <<FALSE, IF run.err # "" THEN run.err ELSE run.out>>
      [] run.kind = "timeout" -> <<FALSE, VerifyErrorMsg("timed out")>>
      [] OTHER -> <<FALSE, VerifyErrorMsg(run.e)>>

\* the body of the try statement and its except clauses: the pair
\* verify_proof returns for a run of the checker
CheckerResult(run) ==
    CASE run.kind = "completed" /\ run.rc = 0 -> <<TRUE, VerifiedMsg>>
      [] run.kind = "completed" /\ run.rc # 0 ->
           <<FALSE, IF run.err # "" THEN run.err ELSE run.out>>
      [] run.kind = "timeout" -> <<FALSE, TimeoutMsg>>
      [] OTHER -> <<FALSE, VerifyErrorMsg(run.e)>>

CheckerResults == {CheckerResult(run) : run \in CheckerRuns}

NoResult == <<FALSE, "">>
NoProbe == [run |-> "none", outcome |-> "none"]

VerifyInit ==
    /\ v_pc = "idle"
    /\ v_code = EmptyText
    /\ temp_files = {}
    /\ v_result = NoResult
    /\ v_probe = NoProbe
    /\ v_checker = NoChecker

\* verify_proof(lean_code): entry and the check_lean_installation call
VerifyCall ==
    /\ v_pc \in {"idle", "returned", "raised"}
    /\ \E code \in {_clean_lean_code(r) : r \in RawResponses} : v_code' = code
    /\ temp_files' = {}
    /\ v_checker' = NoChecker
    /\ \E run \in ProbeRuns :
         LET p == check_lean_installation(run) IN
           /\ v_probe' = [run |-> run, outcome |-> p]
           /\ CASE p = "true"  -> v_pc' = "create" /\ v_result' = NoResult
                [] p = "false" -> v_pc' = "returned" /\ v_result' = <<FALSE, NotInstalledMsg>>
                [] p = "raise" -> v_pc' = "raised" /\ v_result' = <<FALSE, ProbeErrorText>>
    /\ UNCHANGED verifyFrame

\* the with statement: NamedTemporaryFile(delete=False) creates the file,
\* f.write(lean_code) fills it; either can raise, outside any try
CreateArtifact ==
    /\ v_pc = "create"
    /\ \E r \in {"created", "create_raises", "write_raises"} :
         CASE r = "created" ->
                /\ temp_files' = temp_files \cup {TempFile}
                /\ v_pc' = "run"
                /\ UNCHANGED v_result
           [] r = "create_raises" ->
                /\ v_pc' = "raised"
                /\ v_result' = <<FALSE, "E1">>
                /\ UNCHANGED temp_files
           [] r = "write_raises" ->
                /\ temp_files' = temp_files \cup {TempFile}
                /\ v_pc' = "raised"
                /\ v_result' = <<FALSE, "E1">>
    /\ UNCHANGED <<v_code, v_probe, v_checker>>
    /\ UNCHANGED verifyFrame

\* the try statement: subprocess.run and the return value it leads to
RunChecker ==
    /\ v_pc = "run"
    /\ \E run \in CheckerRuns :
         /\ v_checker' = run
         /\ v_result' = CheckerResult(run)
    /\ v_pc' = "finally"
    /\ UNCHANGED <<v_code, temp_files, v_probe>>
    /\ UNCHANGED verifyFrame

\* the finally clause: os.unlink(temp_file), its failure swallowed
ReleaseArtifact ==
    /\ v_pc = "finally"
    /\ \E unlinked \in BOOLEAN :
         temp_files' = IF unlinked THEN temp_files \ {TempFile} ELSE temp_files
    /\ v_pc' = "returned"
    /\ UNCHANGED <<v_code, v_result, v_probe, v_checker>>
    /\ UNCHANGED verifyFrame

NextVerify ==
    \/ VerifyCall
    \/ CreateArtifact
    \/ RunChecker
    \/ ReleaseArtifact

-----------------------------------------------------------------------------
(* database.py: ProofDatabase *)

MaxSessions == 2
MaxOps == 4

\* a statement longer than the 50 characters kept for a derived title
LongStatement == "forall natural numbers n and m, n + m = m + n holds"
LongStatementHead == "forall natural numbers n and m, n + m = m + n hold"
\* title: None (or empty), or a given title
NoTitle == ""
\* the arguments of create_session: a statement and a title
CreateArgs == {<<"S1", "T1">>, <<LongStatement, NoTitle>>}
DBResults == {"R1", "R2"}

\* a column value: NULL or a text
SqlNull == [null |-> TRUE, value |-> ""]
SqlText(v) == [null |-> FALSE, value |-> v]

\* title = statement[:50] + "..." if len(statement) > 50 else statement
DerivedTitle(statement) ==
    IF statement = LongStatement THEN LongStatementHead \o "..." ELSE statement

\* INSERT INTO proof_sessions (title, statement): proof_result is NULL; the
\* two timestamp columns, which no operation below reads, are left out
NewRow(id, title, statement) ==
    [id |-> id,
     title |-> IF title = NoTitle THEN DerivedTitle(statement) ELSE title,
     statement |-> statement,
     proof_result |-> SqlNull]

\* UpdateWhere without the WHERE clause: every row is updated
UpdateWhere_allRows(t, session_id, result) ==
    [i \in 1..Len(t) |-> [t[i] EXCEPT !.proof_result = SqlText(result)]]

\* UPDATE proof_sessions SET proof_result = ? ... WHERE id = ?
UpdateWhere(t, session_id, result) ==
    [i \in 1..Len(t) |->
        IF t[i].id = session_id
        THEN [t[i] EXCEPT !.proof_result = SqlText(result)]
        ELSE t[i]]

\* SELECT * FROM proof_sessions WHERE id = ?: dict(row), or None
SelectById(t, session_id) ==
    IF \E i \in 1..Len(t) : t[i].id = session_id
    THEN [found |-> TRUE, row |-> t[CHOOSE i \in 1..Len(t) : t[i].id = session_id]]
    ELSE [found |-> FALSE, row |-> NewRow(0, NoTitle, "")]

NotFetched == [found |-> FALSE, id |-> 0, statement |-> "", proof_result |-> SqlNull, at |-> 0]

DBInit ==
    /\ table = <<>>
    /\ db_ops = <<>>
    /\ fetched = NotFetched

\* the calls on the database are enumerated as a sequence of at most MaxOps
\* creations and updates followed by one get_session

\* create_session(statement, title): returns cursor.lastrowid
ProofDatabase_create_session ==
    /\ fetched = NotFetched
    /\ Len(db_ops) < MaxOps
    /\ Len(table) < MaxSessions
    /\ \E args \in CreateArgs :
         LET session_id == Len(table) + 1 IN
         /\ table' = Append(table, NewRow(session_id, args[2], args[1]))
         /\ db_ops' = Append(db_ops, [op |-> "create", id |-> session_id,
                                      statement |-> args[1], proof_result |-> SqlNull])
    /\ UNCHANGED fetched
    /\ UNCHANGED dbFrame

\* update_session_proof(session_id, proof_result), for an id that exists or not
ProofDatabase_update_session_proof ==
    /\ fetched = NotFetched
    /\ Len(db_ops) < MaxOps
    /\ \E session_id \in 1..MaxSessions, result \in DBResults :
         /\ table' = UpdateWhere(table, session_id, result)
         /\ db_ops' = Append(db_ops, [op |-> "update", id |-> session_id,
                                      statement |-> "", proof_result |-> SqlText(result)])
    /\ UNCHANGED fetched
    /\ UNCHANGED dbFrame

\* get_session(session_id): the statement and the result of the row it
\* returned, or None
ProofDatabase_get_session ==
    /\ fetched = NotFetched
    /\ \E session_id \in 1..MaxSessions :
         LET r == SelectById(table, session_id) IN
         fetched' = [found |-> r.found, id |-> session_id,
                     statement |-> r.row.statement,
                     proof_result |-> r.row.proof_result,
                     at |-> Len(db_ops)]
    /\ UNCHANGED <<table, db_ops>>
    /\ UNCHANGED dbFrame

NextDB ==
    \/ ProofDatabase_create_session
    \/ ProofDatabase_update_session_proof
    \/ ProofDatabase_get_session

-----------------------------------------------------------------------------
(* app.py: two requests of prove_in_session on the same session id, each
   with its own generate_and_save generator, served concurrently *)

Requests == {1, 2}

\* one message of a generator and whether generate_and_save adds it to
\* full_proof
Step(msg, kept) == [msg |-> msg, kept |-> kept]
KeptStep(msg) == Step(msg, TRUE)

\* generate_and_save before the for loop: the status and knowledge messages
SearchPrefixes ==
    IF lean_explore_available
    THEN LET searching == Step(_format_sse_message(<<"searching">>, "status"), FALSE) IN
         { <<searching,
             KeptStep(_format_sse_message(<<"knowledge">>, "knowledge_chunk")),
             Step(AIStartStatus, FALSE)>>,
           <<searching, Step(AIStartStatus, FALSE)>>,
           <<searching,
             Step(_format_sse_message(<<"search problem">>, "status"), FALSE),
             Step(AIStartStatus, FALSE)>> }
    ELSE { <<Step(AIStartStatus, FALSE)>> }

\* the proof_chunk messages of the chunking loop and of the remaining buffer
RECURSIVE ChunkMessages(_, _)
ChunkMessages(ss, chunk) ==
    LET r == RunLoop(ss, chunk) IN
    IF r.flush
    THEN <<_format_sse_message(r.out, "proof_chunk")>> \o ChunkMessages(r.rest, <<>>)
    ELSE IF r.chunk # <<>>
         THEN <<_format_sse_message(r.chunk, "proof_chunk")>>
         ELSE <<>>

\* the contents the two generations answer with
ConcContents == { <<"x", ".">>, <<"X", "X", ".", "x">> }

\* all messages of a stream_proof_generation whose completion returned content
SuccessStream(content) ==
    << _format_sse_message(<<"generating">>, "status"),
       _format_sse_message(<<"connecting">>, "status"),
       _format_sse_message(<<"AI is generating">>, "proof_start") >>
    \o ChunkMessages(SplitSentences(content), <<>>)
    \o << _format_sse_message(<<>>, "proof_end"),
          _format_sse_message(<<"proof generated">>, "success"),
          _format_sse_message(<<>>, "complete") >>

\* all messages of a stream_proof_generation whose completion raised
ErrorStream(error_msg) ==
    << _format_sse_message(<<"generating">>, "status"),
       _format_sse_message(<<"connecting">>, "status"),
       _format_sse_message(ErrorContent(error_msg), "error"),
       _format_sse_message(<<>>, "complete") >>

InnerStreams == {SuccessStream(c) : c \in ConcContents} \cup {ErrorStream("E1")}

\* for chunk in processor.stream_proof_generation(statement): every chunk
\* is added to full_proof
KeepAll(stream) == [i \in 1..Len(stream) |-> KeptStep(stream[i])]

Plans == {prefix \o KeepAll(stream) : prefix \in SearchPrefixes, stream \in InnerStreams}

ConcInit ==
    /\ c_pc = [r \in Requests |-> "idle"]
    /\ c_plan = [r \in Requests |-> <<>>]
    /\ c_pos = [r \in Requests |-> 0]
    /\ c_full_proof = [r \in Requests |-> <<>>]
    /\ c_stored = NullResult
    /\ c_writes = <<>>
    /\ c_overlapped = FALSE

\* Accumulate on a buffer shared by the requests
Accumulate_shared(fp, r, msg) == [q \in Requests |-> Append(fp[q], msg)]

\* full_proof += chunk, on the full_proof of the closure of request r
Accumulate(fp, r, msg) == [fp EXCEPT ![r] = Append(fp[r], msg)]

MidStream(r) == c_pc[r] = "running" /\ c_pos[r] >= 1 /\ c_pos[r] < Len(c_plan[r])

\* prove_in_session: the request finds the session, full_proof = "", and
\* the response gets the generator generate_and_save()
ConcStart(r) ==
    /\ c_pc[r] = "idle"
    /\ \E plan \in Plans : c_plan' = [c_plan EXCEPT ![r] = plan]
    /\ c_pc' = [c_pc EXCEPT ![r] = "running"]
    /\ c_full_proof' = [c_full_proof EXCEPT ![r] = <<>>]
    /\ UNCHANGED <<c_pos, c_stored, c_writes, c_overlapped>>
    /\ UNCHANGED concFrame

\* the generator of request r runs to its next yield
ConcYield(r) ==
    /\ c_pc[r] = "running"
    /\ c_pos[r] < Len(c_plan[r])
    /\ LET step == c_plan[r][c_pos[r] + 1] IN
         c_full_proof' = IF step.kept
                         THEN Accumulate(c_full_proof, r, step.msg)
                         ELSE c_full_proof
    /\ c_pos' = [c_pos EXCEPT ![r] = c_pos[r] + 1]
    /\ c_overlapped' = (c_overlapped \/ (\E q \in Requests \ {r} : MidStream(q)))
    /\ UNCHANGED <<c_pc, c_plan, c_stored, c_writes>>
    /\ UNCHANGED concFrame

\* the generator of request r is resumed after its last yield:
\* db.update_session_proof(session_id, full_proof), one UPDATE in its own
\* connection, which can raise (database is locked)
ConcFinalize(r) ==
    /\ c_pc[r] = "running"
    /\ c_pos[r] = Len(c_plan[r])
    /\ \E saved \in BOOLEAN :
         /\ c_stored' = IF saved
                        THEN [null |-> FALSE, value |-> c_full_proof[r]]
                        ELSE c_stored
         /\ c_writes' = IF saved THEN Append(c_writes, r) ELSE c_writes
    /\ c_pc' = [c_pc EXCEPT ![r] = "closed"]
    /\ UNCHANGED <<c_plan, c_pos, c_full_proof, c_overlapped>>
    /\ UNCHANGED concFrame

\* the client of request r goes away while its generator is suspended at a
\* yield
ConcDisconnect(r) ==
    /\ c_pc[r] = "running"
    /\ c_pos[r] >= 1
    /\ c_pc' = [c_pc EXCEPT ![r] = "aborted"]
    /\ UNCHANGED <<c_plan, c_pos, c_full_proof, c_stored, c_writes, c_overlapped>>
    /\ UNCHANGED concFrame

NextConc ==
    \/ \E r \in Requests : ConcStart(r)
    \/ \E r \in Requests : ConcYield(r)
    \/ \E r \in Requests : ConcFinalize(r)
    \/ \E r \in Requests : ConcDisconnect(r)

-----------------------------------------------------------------------------
(* llm_client.py: LLMClient.__init__, app.py: StreamingProofProcessor.__init__,
   and the completion calls of their instances *)

MaxCalls == 2

\* the instances: an LLMClient and a StreamingProofProcessor
Instances == {"LLMClient", "StreamingProofProcessor"}

\* a setting that the configuration file does not give (None), and an
\* environment variable that is not set
Unset == ""
ApiKeys == {Unset, "K1", "K2"}
BaseUrls == {Unset, "U1", "U2"}

NotConstructed == [constructed |-> FALSE, api_key |-> Unset, base_url |-> Unset]

CfgInit ==
    /\ environ = [OPENAI_API_KEY |-> Unset, OPENAI_API_BASE |-> Unset]
    /\ clients = [c \in Instances |-> NotConstructed]
    /\ cfg_calls = <<>>

\* if self.api_key: os.environ['OPENAI_API_KEY'] = self.api_key, and the
\* same for base_url
SetEnviron(env, api_key, base_url) ==
    [OPENAI_API_KEY  |-> IF api_key # Unset THEN api_key ELSE env.OPENAI_API_KEY,
     OPENAI_API_BASE |-> IF base_url # Unset THEN base_url ELSE env.OPENAI_API_BASE]

\* __init__ of instance c, with the api_key and base_url of its configuration
Construct(c) ==
    /\ ~clients[c].constructed
    /\ \E api_key \in ApiKeys, base_url \in BaseUrls :
         /\ clients' = [clients EXCEPT ![c] = [constructed |-> TRUE,
                                               api_key |-> api_key,
                                               base_url |-> base_url]]
         /\ environ' = SetEnviron(environ, api_key, base_url)
    /\ UNCHANGED cfg_calls
    /\ UNCHANGED cfgFrame

\* completion(model=..., messages=..., temperature=..., max_tokens=...) of
\* instance c: no api_key and no api_base argument is passed, the call takes
\* both from the environment
CompletionCall(c) ==
    /\ clients[c].constructed
    /\ Len(cfg_calls) < MaxCalls
    /\ cfg_calls' = Append(cfg_calls, [client |-> c,
                                       api_key |-> environ.OPENAI_API_KEY,
                                       base_url |-> environ.OPENAI_API_BASE])
    /\ UNCHANGED <<environ, clients>>
    /\ UNCHANGED cfgFrame

NextCfg ==
    \/ \E c \in Instances : Construct(c)
    \/ \E c \in Instances : CompletionCall(c)


-----------------------------------------------------------------------------
(* database.py: ProofDatabase.get_sessions / get_recent_sessions, with the  *)
(* updated_at column the other operations on the table do not read          *)

\* the last second of the clock
MaxClock == 2

\* the default limit of get_recent_sessions
RecentLimit == 3

\* limit: None (0 stands for it: "if limit:" reads both as no limit), or a
\* number of rows
Limits == {0, 1, RecentLimit}

NotListed == [done |-> FALSE, limit |-> 0, ids |-> <<>>]
NoCall == [op |-> "none", id |-> 0]

ListInit ==
    /\ t_clock = 0
    /\ t_updated_at = <<>>
    /\ t_last = NoCall
    /\ t_listed = NotListed

\* ORDER BY updated_at DESC: every order of the rows in which updated_at
\* never increases; SQL leaves the order of rows with equal keys open
OrderByUpdatedAtDesc(stamps) ==
    LET n == Len(stamps) IN
    {ids \in [1..n -> 1..n] :
        /\ \A i, j \in 1..n : i # j => ids[i] # ids[j]
        /\ \A i, j \in 1..n : i < j => stamps[ids[i]] >= stamps[ids[j]]}

\* if limit: query += f' LIMIT {limit}'
ApplyLimit(ids, limit) ==
    IF limit = 0 \/ limit >= Len(ids) THEN ids ELSE SubSeq(ids, 1, limit)

\* a second passes; CURRENT_TIMESTAMP has a resolution of one second
ClockTick ==
    /\ t_clock < MaxClock
    /\ t_clock' = t_clock + 1
    /\ UNCHANGED <<t_updated_at, t_last, t_listed>>
    /\ UNCHANGED listFrame

\* create_session: the INSERT gives updated_at its default, CURRENT_TIMESTAMP
Sessions_create_session ==
    /\ Len(t_updated_at) < MaxSessions
    /\ t_updated_at' = Append(t_updated_at, t_clock)
    /\ t_last' = [op |-> "create", id |-> Len(t_updated_at) + 1]
    /\ t_listed' = NotListed
    /\ UNCHANGED t_clock
    /\ UNCHANGED listFrame

\* update_session_proof(session_id, R) for a session of the table:
\* SET ..., updated_at = CURRENT_TIMESTAMP WHERE id = ?
Sessions_update_session_proof ==
    /\ \E session_id \in 1..Len(t_updated_at) :
         /\ t_updated_at' = [t_updated_at EXCEPT ![session_id] = t_clock]
         /\ t_last' = [op |-> "update", id |-> session_id]
    /\ t_listed' = NotListed
    /\ UNCHANGED t_clock
    /\ UNCHANGED listFrame

\* get_sessions(limit), and get_recent_sessions() with limit = RecentLimit:
\* the ids of the rows returned, in order
ProofDatabase_get_sessions ==
    /\ ~t_listed.done
    /\ \E limit \in Limits, ids \in OrderByUpdatedAtDesc(t_updated_at) :
         t_listed' = [done |-> TRUE, limit |-> limit, ids |-> ApplyLimit(ids, limit)]
    /\ UNCHANGED <<t_clock, t_updated_at, t_last>>
    /\ UNCHANGED listFrame

NextList ==
    \/ ClockTick
    \/ Sessions_create_session
    \/ Sessions_update_session_proof
    \/ ProofDatabase_get_sessions

-----------------------------------------------------------------------------
vars == <<orchVars, wrapVars, streamVars, auxVars>>

Init ==
    /\ OrchInit /\ WrapInit /\ StreamInit /\ LLMInit /\ VerifyInit
    /\ DBInit /\ ConcInit /\ CfgInit /\ ListInit

SpecOrch == Init /\ [][NextOrch]_vars

\* every delegated call of a run returns or raises: a step that is possible
\* is taken
SpecOrchFair ==
    /\ Init /\ [][NextOrch]_vars
    /\ WF_vars(GenerateInitial) /\ WF_vars(SecondProbe) /\ WF_vars(VerifyStep)
    /\ WF_vars(RefineStep) /\ WF_vars(ExplainStep)

SpecWrap == Init /\ [][NextWrap]_vars

SpecStream == Init /\ [][NextStream]_vars

SpecLLM == Init /\ [][NextLLM]_vars

SpecVerify == Init /\ [][NextVerify]_vars

SpecDB == Init /\ [][NextDB]_vars

SpecConc == Init /\ [][NextConc]_vars

SpecCfg == Init /\ [][NextCfg]_vars

SpecList == Init /\ [][NextList]_vars

-----------------------------------------------------------------------------
(* Properties of ProofProcessor.process_proof *)

IsVerify(c) == c.op = "verify"
IsGeneration(c) == c.op \in {"generate", "refine", "explain"}
VerifyCount == Len(SelectSeq(calls, IsVerify))
Accepted(i) == calls[i].op = "verify" /\ calls[i].ret = "accept"
PreflightFailed == calls # <<>> /\ calls[1].op = "probe" /\ calls[1].ret = "false"
SecondProbeAt(i) == i > 1 /\ calls[i].op = "probe"

\* C1: in one run of process_proof with max_attempts = N, verify_proof is
\* called at most N times, whatever the verifier and the generator answer.
C1_VerifyAtMostN == VerifyCount <= max_attempts

\* a run whose every verification rejected and that used all N >= 2 attempts
C1_Witness ==
    /\ max_attempts >= 2
    /\ VerifyCount = max_attempts
    /\ o_pc = "done"
    /\ \A i \in 1..Len(calls) : ~Accepted(i)

\* C2 as stated: after an accepting verify_proof the run makes no further
\* verify_proof call and no call to the generation service.
C2_NoCallAfterAccept ==
    \A i \in 1..Len(calls) : \A j \in 1..Len(calls) :
        (Accepted(i) /\ i < j) => ~IsVerify(calls[j]) /\ ~IsGeneration(calls[j])

\* C2 amended: after an accepting verify_proof the run makes no further
\* verify_proof, generate_lean_proof or refine_proof call; the only call
\* that follows is the one explain_proof call that ends the run.
C2_OnlyExplainAfterAccept ==
    \A i \in 1..Len(calls) : \A j \in 1..Len(calls) :
        (Accepted(i) /\ i < j) =>
            /\ calls[j].op = "explain"
            /\ j = i + 1
            /\ j = Len(calls)
            /\ o_pc = "done"

\* acceptance on a refined candidate, followed by the explanation
C2_Witness ==
    /\ o_pc = "done"
    /\ Len(calls) >= 2
    /\ Accepted(Len(calls) - 1)
    /\ attempt > 0
    /\ attempt < max_attempts - 1

-----------------------------------------------------------------------------
(* Properties of stream_proof_generation and generate_and_save *)

Positions(t) == {i \in 1..Len(events) : events[i].type = t}
Count(t) == Cardinality(Positions(t))
\* the generator made its last yield
Ended == s_pc \in {"last_yield", "closed"}

\* C4: the event sequence of every run, of stream_proof_generation alone or
\* inside generate_and_save, successful or failed, holds exactly one
\* complete event, and that event is the last one.
C4_OneCompleteLast ==
    /\ Count("complete") <= 1
    /\ Count("complete") = 1 => events[Len(events)].type = "complete"
    /\ Ended => Count("complete") = 1

\* a session run that failed in the completion call and was closed
C4_Witness ==
    /\ s_pc = "closed"
    /\ mode = "session"
    /\ exc # <<>>
    /\ Count("proof_start") = 0
    /\ Count("knowledge_chunk") = 1

ChunksBetween ==
    \A c \in Positions("proof_chunk") :
        /\ \E a \in Positions("proof_start") : a < c
        /\ \A b \in Positions("proof_end") : c < b

StatusBeforeStart ==
    \A a \in Positions("proof_start") : \E i \in Positions("status") : i < a

\* C5 as stated: every run, successful or failed, has exactly one
\* proof_start and one proof_end, a status before proof_start, and every
\* proof_chunk between the two.
C5_StartEndInEveryRun ==
    Ended =>
        /\ Count("proof_start") = 1
        /\ Count("proof_end") = 1
        /\ StatusBeforeStart
        /\ ChunksBetween

\* C5 amended: a run that ends with success has exactly one proof_start and
\* one proof_end; a run that ends with error has at most one proof_start
\* and no proof_end; in every run a status precedes proof_start and every
\* proof_chunk lies after proof_start and before proof_end.
C5_StartEndInSuccessfulRun ==
    /\ StatusBeforeStart
    /\ ChunksBetween
    /\ Count("proof_start") <= 1
    /\ Count("proof_end") <= 1
    /\ \A b \in Positions("proof_end") : \E a \in Positions("proof_start") : a < b
    /\ Count("success") = 1 => Count("proof_start") = 1 /\ Count("proof_end") = 1
    /\ Count("error") = 1 => Count("proof_end") = 0

\* a successful run that delivered two chunks
C5_Witness ==
    /\ Ended
    /\ Count("success") = 1
    /\ Count("proof_chunk") = 2

\* C6: every run emits exactly one event of type success or error, and
\* emits it before complete.
C6_OneVerdict ==
    /\ Count("success") + Count("error") <= 1
    /\ \A c \in Positions("complete") :
         /\ Count("success") + Count("error") = 1
         /\ \E v \in Positions("success") \cup Positions("error") : v < c

\* a run that ended with success, and no error
C6_Witness ==
    /\ Ended
    /\ Count("success") = 1
    /\ Count("error") = 0
    /\ Count("proof_chunk") = 0

\* C7: an exception raised anywhere in stream_proof_generation becomes a
\* single error event that carries the message of the exception and is
\* followed immediately by complete; nothing is emitted after complete.
C7_ExceptionBecomesError ==
    /\ Len(exc) <= 1
    /\ Count("error") = Len(exc)
    /\ \A i \in Positions("error") :
         /\ events[i].content = <<"error: ", exc[1]>>
         /\ i = Len(events) \/ (i + 1 = Len(events) /\ events[i + 1].type = "complete")
         /\ Ended => i + 1 = Len(events)
    /\ \A c \in Positions("complete") : c = Len(events)

\* the exception raised by the chunking of a None content, after proof_start
C7_Witness ==
    /\ s_pc = "closed"
    /\ exc = <<NoneHasNoSplit>>
    /\ Count("proof_start") = 1
    /\ events[Len(events) - 1].type = "error"

-----------------------------------------------------------------------------
(* Properties of beta.formator / beta.prove *)

TaggedMarkers(fn) ==
    {ConnectionMarker(fn), RateLimitMarker(fn)}
      \cup {APIErrorMarker(fn, e) : e \in ExcTexts}
      \cup {UnexpectedMarker(fn, e) : e \in ExcTexts}

LastOutcome == w_faults[Len(w_faults)]

\* C8 as stated: the wrapper never raises; it returns the payload of the
\* completion or a failure marker tagged connection, rate limit, API error
\* or unexpected error.
C8_PayloadOrTaggedMarker ==
    /\ w_pc # "raised"
    /\ w_pc = "returned" =>
         \/ LastOutcome.cls = "ok" /\ w_result = LastOutcome.text
         \/ LastOutcome.cls # "ok" /\ w_result \in TaggedMarkers(w_fn)

\* C8 amended: the wrapper never raises; it returns the payload of the
\* completion when that is not empty, the bare failure text (no tag) when
\* the completion is empty, and otherwise a failure marker tagged
\* connection, rate limit, API error or unexpected error.
C8_NeverRaises ==
    /\ w_pc # "raised"
    /\ w_pc = "returned" =>
         \/ /\ LastOutcome.cls = "ok"
            /\ LastOutcome.text # ""
            /\ w_result = LastOutcome.text
         \/ /\ LastOutcome.cls = "ok"
            /\ LastOutcome.text = ""
            /\ w_result = FailedText(w_fn)
         \/ /\ LastOutcome.cls # "ok"
            /\ w_result \in TaggedMarkers(w_fn)

\* an unclassified exception on the second attempt of prove
C8_Witness ==
    /\ w_pc = "returned"
    /\ w_fn = "prove"
    /\ Len(w_faults) = 2
    /\ LastOutcome.cls = "Exception"
    /\ w_result = UnexpectedMarker("prove", LastOutcome.text)

ConnectionTwice ==
    /\ Len(w_faults) >= 2
    /\ w_faults[1].cls = "APIConnectionError"
    /\ w_faults[2].cls = "APIConnectionError"

\* C9: two connection faults followed by a completion with a payload make
\* exactly max_retries = 3 endpoint calls, return the payload, and sleep 1s
\* and then 2s between the attempts.
C9_ConnectionBackoff ==
    ConnectionTwice =>
        /\ Len(w_sleeps) >= 2 /\ SubSeq(w_sleeps, 1, 2) = <<1, 2>>
        /\ Len(w_faults) = 2 => w_pc = "loop"
        /\ (Len(w_faults) >= 3 /\ w_faults[3].cls = "ok" /\ w_faults[3].text \in Payloads) =>
             /\ w_pc = "returned"
             /\ Len(w_faults) = max_retries
             /\ w_result = w_faults[3].text
             /\ w_sleeps = <<1, 2>>

\* formator returned the payload of its third call
C9_Witness ==
    /\ ConnectionTwice
    /\ w_fn = "formator"
    /\ w_pc = "returned"
    /\ Len(w_faults) = 3
    /\ w_result = "P1"

RateLimited(n) ==
    /\ Len(w_faults) >= n
    /\ \A i \in 1..n : w_faults[i].cls = "RateLimitError"

\* C10: a rate-limit fault on each of the max_retries = 3 attempts makes
\* the wrapper return the rate-limit marker after exactly 3 endpoint calls,
\* having slept 10s and then 20s between the attempts, without raising.
C10_RateLimitExhausted ==
    /\ RateLimited(1) => Len(w_sleeps) >= 1 /\ w_sleeps[1] = 10
    /\ RateLimited(2) => Len(w_sleeps) >= 2 /\ w_sleeps[2] = 20
    /\ (RateLimited(2) /\ Len(w_faults) = 2) => w_pc = "loop"
    /\ RateLimited(max_retries) =>
         /\ w_pc = "returned"
         /\ Len(w_faults) = max_retries
         /\ w_result = RateLimitMarker(w_fn)
         /\ w_sleeps = <<10, 20>>

\* prove gave up after three rate-limit faults
C10_Witness ==
    /\ RateLimited(3)
    /\ w_fn = "prove"
    /\ w_pc = "returned"
    /\ w_result = "proof failed - rate limited"

\* C11: an API error that is neither a connection nor a rate-limit fault,
\* and any unclassified exception, end the wrapper at once with their
\* marker: no endpoint call and no sleep follows.
C11_FailsImmediately ==
    \A i \in 1..Len(w_faults) :
        w_faults[i].cls \in {"APIError", "Exception"} =>
            /\ i = Len(w_faults)
            /\ w_pc = "returned"
            /\ Len(w_sleeps) = i - 1
            /\ w_result = IF w_faults[i].cls = "APIError"
                          THEN FailedText(w_fn) \o " - API error: " \o w_faults[i].text
                          ELSE FailedText(w_fn) \o " - unexpected error: " \o w_faults[i].text

\* formator hit an API error on its second attempt, after a rate limit
C11_Witness ==
    /\ w_pc = "returned"
    /\ w_fn = "formator"
    /\ Len(w_faults) = 2
    /\ w_faults[1].cls = "RateLimitError"
    /\ w_faults[2].cls = "APIError"
    /\ w_sleeps = <<10>>

-----------------------------------------------------------------------------
(* Properties of LLMClient.generate_lean_proof / refine_proof *)

LLMEnded == l_pc \in {"returned", "raised"}
Retryable(o) == o.cls \in {"APIConnectionError", "RateLimitError"}
WrapperOnScript == WrapperRun("formator", l_script, 0)
WrapperSucceeded ==
    WrapperOnScript.result \in {o.text : o \in {x \in LLMEndpointOutcomes : x.cls = "ok"}} \ {""}

-----------------------------------------------------------------------------
(* Properties of LeanExecutor.verify_proof *)

\* C13: when verify_proof has returned or raised, on whatever path, no
\* temporary file that the call created exists any more.
C13_ArtifactReleased ==
    v_pc \in {"returned", "raised"} => temp_files = {}

-----------------------------------------------------------------------------
(* Further properties of ProofProcessor.process_proof *)

VerifyCalls == SelectSeq(calls, IsVerify)
IsRefine(c) == c.op = "refine"
RefineCalls == SelectSeq(calls, IsRefine)
\* the verifier rejected attempts 1 and 2 with D1 and D2 and accepted attempt 3
RejectRejectAccept ==
    /\ max_attempts = 3
    /\ Len(VerifyCalls) = 3
    /\ VerifyCalls[1].ret = "reject" /\ VerifyCalls[1].out = "D1"
    /\ VerifyCalls[2].ret = "reject" /\ VerifyCalls[2].out = "D2"
    /\ VerifyCalls[3].ret = "accept"
IsAttemptHeader(part) == part[1] = "verify_attempt"
IsFailure(part) == part[1] = "failed"
IsExhausted(part) == part[1] = "exhausted"

\* C14: with max_attempts = 3, when the verifier rejects attempts 1 and 2
\* with D1 and D2 and accepts attempt 3, the report of the verification says
\* verified and not exhausted, its final code is the candidate that attempt 3
\* verified (the cleaned answer of the second refinement), and its history
\* has exactly the attempts 1, 2, 3 with the failures D1 then D2, once each.
C14_ExampleRun ==
    RejectRejectAccept =>
        /\ vr_parts =
             << <<"verify_attempt", 1>>, <<"failed", "D1">>,
                <<"refining", "">>, <<"refined", "">>,
                <<"verify_attempt", 2>>, <<"failed", "D2">>,
                <<"refining", "">>, <<"refined", "">>,
                <<"verify_attempt", 3>>, <<"verified", "">>,
                <<"final_code", VerifyCalls[3].arg>> >>
        /\ Len(SelectSeq(vr_parts, IsAttemptHeader)) = 3
        /\ SelectSeq(vr_parts, IsFailure) = << <<"failed", "D1">>, <<"failed", "D2">> >>
        /\ SelectSeq(vr_parts, IsExhausted) = <<>>
        /\ Len(RefineCalls) = 2
        /\ VerifyCalls[3].arg = _clean_lean_code(RefineCalls[2].out)
        /\ result_parts[Len(result_parts)] = <<"verification", vr_parts>>
             \/ o_pc = "done"

\* the example run, finished, whose third candidate differs from the first
C14_Witness ==
    /\ RejectRejectAccept
    /\ o_pc = "done"
    /\ VerifyCalls[3].arg # VerifyCalls[1].arg

GenerationFailed ==
    \E i \in 1..Len(calls) : calls[i].op = "generate" /\ calls[i].ret = "raise"

\* C15: when the generate_lean_proof call raises, process_proof ends at once
\* with the generation error as the last part of its result, makes no
\* verify_proof call (nor any other call) and records no verification attempt.
C15_GenerationFailure ==
    GenerationFailed =>
        /\ o_pc = "done"
        /\ calls[Len(calls)].op = "generate"
        /\ result_parts[Len(result_parts)] = GenerateError(calls[Len(calls)].out)
        /\ VerifyCount = 0
        /\ vr_parts = <<>>
        /\ \A i \in 1..Len(result_parts) : result_parts[i][1] # "verification"

\* the generation raised in a run whose pre-flight probe succeeded
C15_Witness ==
    /\ GenerationFailed
    /\ calls[1].ret = "true"
    /\ o_pc = "done"

-----------------------------------------------------------------------------
(* Properties of the finalize write of generate_and_save *)

SessionRun == mode = "session" /\ s_pc # "idle"

\* C16: a run of generate_and_save that the server iterates to its end calls
\* update_session_proof exactly once, with the run's full_proof, after the
\* last event (complete) was produced, whether the generation ended with
\* success or with error; until then the run makes no such call.
C16_OneFinalizeWrite ==
    SessionRun =>
        /\ s_pc # "closed" => db_calls = <<>>
        /\ s_pc = "closed" =>
             /\ Len(db_calls) = 1
             /\ db_calls[1].at = Len(events)
             /\ db_calls[1].value = full_proof
             /\ events[Len(events)].type = "complete"
             /\ Count("success") + Count("error") = 1

\* a session run whose generation ended with error, iterated to its end
C16_Witness ==
    /\ SessionRun
    /\ s_pc = "closed"
    /\ Count("error") = 1
    /\ Len(db_calls) = 1

\* C17: at every point of a session run, also after a failure of the
\* generation, of the write or a disconnect, the stored result is the value
\* read before the run or, once the run has ended, the whole full_proof of
\* the run, which ends with the complete event; a proper prefix of the
\* accumulated content is never stored.
C17_PriorOrComplete ==
    SessionRun =>
        \/ proof_result = prior_result
        \/ /\ s_pc = "closed"
           /\ ~proof_result.null
           /\ proof_result.value = full_proof
           /\ full_proof # <<>>
           /\ full_proof[Len(full_proof)].type = "complete"

\* a failed run on a session that had a result: the new content replaced it
C17_Witness ==
    /\ SessionRun
    /\ s_pc = "closed"
    /\ ~prior_result.null
    /\ exc # <<>>
    /\ proof_result # prior_result
    /\ proof_result.value = full_proof

-----------------------------------------------------------------------------
(* Properties of ProofDatabase *)

OpsOn(id, op) == {i \in 1..Len(db_ops) : db_ops[i].op = op /\ db_ops[i].id = id}
\* the last update of session id among the first k calls, or 0
LastUpdateUpTo(id, k) ==
    LET u == {i \in OpsOn(id, "update") : i <= k} IN
    IF u = {} THEN 0 ELSE CHOOSE i \in u : \A j \in u : j <= i

\* C18: a get_session(id) made after create_session(S) returned id and
\* update_session_proof(id, R) was applied returns statement S and
\* proof_result R, R being the result of the last update of that id,
\* whatever was created or updated on other ids in between; before any
\* update of that id it returns a null result.
C18_RoundTrip ==
    fetched.found =>
        \E c \in OpsOn(fetched.id, "create") :
            /\ c <= fetched.at
            /\ fetched.statement = db_ops[c].statement
            /\ LET u == LastUpdateUpTo(fetched.id, fetched.at) IN
                 IF u > c
                 THEN fetched.proof_result = db_ops[u].proof_result
                 ELSE fetched.proof_result = SqlNull

\* session 1 created and updated, then session 2 updated with another
\* result, then session 1 fetched
C18_Witness ==
    /\ fetched.found /\ fetched.id = 1 /\ fetched.at = Len(db_ops)
    /\ LastUpdateUpTo(1, fetched.at) > 0
    /\ \E j \in OpsOn(2, "update") :
         /\ j > LastUpdateUpTo(1, fetched.at)
         /\ Len(table) = 2
         /\ db_ops[j].proof_result # fetched.proof_result

-----------------------------------------------------------------------------
(* Properties of concurrent requests on one session *)

\* what a request that yields the whole plan accumulates
RECURSIVE Kept(_)
Kept(plan) ==
    IF plan = <<>> THEN <<>>
    ELSE (IF Head(plan).kept THEN <<Head(plan).msg>> ELSE <<>>) \o Kept(Tail(plan))

ConcEnded(r) == c_pc[r] \in {"closed", "aborted"}

\* C19: with two interleaved requests on one session, the stored result is
\* at every moment the value before the requests or the complete content of
\* one request, the one whose update_session_proof succeeded last; it is
\* never a mixture of messages of both, and a later write replaces the
\* earlier result in full.
C19_LastWriterWins ==
    IF c_writes = <<>>
    THEN c_stored = NullResult
    ELSE LET w == c_writes[Len(c_writes)] IN
         /\ c_pc[w] = "closed"
         /\ c_stored = [null |-> FALSE, value |-> Kept(c_plan[w])]
         /\ c_stored.value[Len(c_stored.value)].type = "complete"

\* both requests streamed at the same time with different contents, request
\* 2 wrote first and request 1 overwrote it
C19_Witness ==
    /\ \A r \in Requests : c_pc[r] = "closed"
    /\ c_overlapped
    /\ c_writes = <<2, 1>>
    /\ Kept(c_plan[1]) # Kept(c_plan[2])
    /\ c_stored.value = Kept(c_plan[1])

-----------------------------------------------------------------------------
(* Properties of the configuration of the client instances *)

\* two instances, each constructed with an api_key and a base_url of its
\* own, that differ in one of the two
DifferentConfigurations ==
    /\ \A c \in Instances :
         clients[c].constructed /\ clients[c].api_key # Unset /\ clients[c].base_url # Unset
    /\ \E c, d \in Instances :
         clients[c].api_key # clients[d].api_key \/ clients[c].base_url # clients[d].base_url

\* C20: when two instances are constructed with different credentials or
\* base URLs, every completion call uses the api_key and the base_url of the
\* instance that makes it, whatever the order of the constructions and of
\* the calls.
C20_OwnConfiguration ==
    DifferentConfigurations =>
        \A i \in 1..Len(cfg_calls) :
            /\ cfg_calls[i].api_key = clients[cfg_calls[i].client].api_key
            /\ cfg_calls[i].base_url = clients[cfg_calls[i].client].base_url

-----------------------------------------------------------------------------
(* Sequential runs of process_proof on one instance *)

\* the values of the run's locals right after the pre-flight probe, given
\* the statement and what the probe answered
FreshRun(s, p) ==
    /\ result_parts =
         <<<<"input", s>>>> \o
         (IF p = "false" THEN <<<<"warning", "not installed">>>> ELSE <<>>) \o
         (IF p = "raise" THEN <<>> ELSE <<<<"generating", "">>>>)
    /\ lean_code = EmptyText
    /\ current_code = EmptyText
    /\ attempt = 0
    /\ last_message = ""
    /\ vr_parts = <<>>

\* C21: a run of process_proof starts from the same state whatever the
\* instance ran before: after its first delegated call every local of the
\* run is a function of the statement and of that call's answer alone, and
\* every later delegated call of the run gets its arguments from this run
\* (the statement, or a candidate produced by a call of this run).
C21_RunsIndependent ==
    o_pc # "idle" =>
        /\ calls[1].op = "probe" /\ calls[1].arg = proof_statement
        /\ Len(calls) = 1 => FreshRun(proof_statement, calls[1].ret)
        /\ \A i \in 2..Len(calls) :
             /\ calls[i].op = "generate" => calls[i].arg = proof_statement
             /\ calls[i].op = "verify" =>
                  \E j \in 1..(i - 1) :
                      /\ calls[j].op \in {"generate", "refine"}
                      /\ calls[j].ret = "ok"
                      /\ calls[i].arg = _clean_lean_code(calls[j].out)

\* a second run that has just made its first call, after a run that ended
\* with a refined candidate and a diagnostic
C21_Witness ==
    /\ earlier = "refined"
    /\ Len(calls) = 1
    /\ o_pc = "generate"

-----------------------------------------------------------------------------
(* Heartbeats and the flush rule of stream_proof_generation *)

EventTypes ==
    {"status", "knowledge_chunk", "proof_start", "proof_chunk", "proof_end",
     "success", "error", "complete"}

Visited ==
    LET all == SplitSentences(s_content)
    IN SubSeq(all, 1, Len(all) - Len(sentences))

\* how many of the first k visited pieces the loop appended to the buffer
\* (each with one full stop after it)
AppendedUpTo(k) == Cardinality({i \in 1..k : StripStr(Visited[i]) # <<>>})

\* the full stops of the proof_chunk events up to event j
StopsUpTo(j) ==
    Cardinality({p \in Positions("proof_chunk") \X (1..(2 * SentenceCount + MaxContentLen + 8)) :
                    /\ p[1] <= j
                    /\ p[2] <= Len(events[p[1]].content)
                    /\ events[p[1]].content[p[2]] = "."})

\* C23: in buffered mode the buffer is flushed as one proof_chunk as soon as
\* it is longer than 200 characters or a paragraph boundary (a blank line of
\* the response) is crossed, also when the buffer holds 200 characters or
\* fewer: for every piece the loop has visited that holds a paragraph
\* boundary, a proof_chunk ends with the sentence before the boundary (when
\* there is one) or with that piece.
C23_FlushOnParagraphBoundary ==
    \A k \in 1..Len(Visited) :
        (HasMarker(Visited[k]) /\ AppendedUpTo(k - 1) > 0)
          => \E j \in Positions("proof_chunk") :
                StopsUpTo(j) \in {AppendedUpTo(k - 1), AppendedUpTo(k)}

-----------------------------------------------------------------------------
(* The probe of the checker                                                 *)

\* the runs of the version probe that fail: a timeout, an executable that is
\* not found, another error starting the process
FailedProbeRuns == ProbeRuns \ {"rc0", "rc1"}

\* C24: check_lean_installation never raises; every failure to run the
\* version probe (timeout, executable not found, any other error starting
\* the process) yields the result false.
C24_ProbeNeverRaises ==
    /\ v_probe.outcome # "raise"
    /\ v_probe.run \in FailedProbeRuns => v_probe.outcome = "false"

-----------------------------------------------------------------------------
(* The outcome of verify_proof for a timeout and for a rejection            *)

VerifyReturned == v_pc = "returned" /\ v_checker.kind # "none"

\* the checker ran to its end and rejected the candidate
Rejected == v_checker.kind = "completed" /\ v_checker.rc # 0

-----------------------------------------------------------------------------
(* The list of sessions                                                     *)

\* C26: get_sessions / get_recent_sessions returns the sessions ordered by
\* most recently updated first and, for a limit n >= 1, at most n of them;
\* after update_session_proof(id, R) that session is the first of the list
\* until another session is created or updated.
C26_RecentFirst ==
    t_listed.done =>
        /\ \A i, j \in 1..Len(t_listed.ids) :
             i < j => t_updated_at[t_listed.ids[i]] >= t_updated_at[t_listed.ids[j]]
        /\ t_listed.limit >= 1 => Len(t_listed.ids) <= t_listed.limit
        /\ t_last.op = "update" =>
             /\ t_listed.ids # <<>>
             /\ t_listed.ids[1] = t_last.id

-----------------------------------------------------------------------------
(* The refine loop of _verify_and_refine_proof                              *)

\* _verify_and_refine_proof has returned
LoopOver == o_pc \in {"explain", "done"} /\ VerifyCount > 0

\* every verification of the run rejected and every refinement succeeded
AllRejected ==
    /\ LoopOver
    /\ \A i \in 1..Len(calls) :
         /\ calls[i].op = "verify" => calls[i].ret = "reject"
         /\ calls[i].op = "refine" => calls[i].ret = "ok"

\* C27: when every one of the N = max_attempts verifications rejects and
\* every refinement call succeeds, the run calls verify_proof exactly N
\* times and refine_proof exactly N - 1 times, reports failure, and its
\* history holds the N diagnostics in attempt order.
C27_AllAttemptsRejected ==
    AllRejected =>
        /\ Len(VerifyCalls) = max_attempts
        /\ Len(RefineCalls) = max_attempts - 1
        /\ vr_parts[Len(vr_parts)] = <<"exhausted", max_attempts>>
        /\ \E i \in 1..Len(result_parts) : result_parts[i] = <<"verification", vr_parts>>
        /\ SelectSeq(vr_parts, IsFailure) =
             [k \in 1..max_attempts |-> <<"failed", VerifyCalls[k].out>>]
        /\ SelectSeq(vr_parts, IsAttemptHeader) =
             [k \in 1..max_attempts |-> <<"verify_attempt", k>>]

\* three rejections with three diagnostics that are not all the same
C27_Witness ==
    /\ AllRejected
    /\ o_pc = "done"
    /\ max_attempts = 3
    /\ VerifyCalls[1].out = "D1"
    /\ VerifyCalls[2].out = "D2"
    /\ VerifyCalls[3].out = "D1"

\* the attempt (from 1) in which call i, a verify_proof call, was made
AttemptOf(i) == Cardinality({j \in 1..i : calls[j].op = "verify"})

RejectedAt(i) == calls[i].op = "verify" /\ calls[i].ret = "reject"

\* C28: after a rejection on attempt k < max_attempts, refine_proof is
\* called exactly once, with the candidate verified on attempt k and the
\* diagnostic of attempt k, and the candidate verified on attempt k + 1 is
\* the cleaned result of that call; after a rejection on the final attempt
\* no refine_proof call is made.
C28_RefineAfterRejection ==
    \A i \in 1..Len(calls) :
        RejectedAt(i) =>
            IF AttemptOf(i) < max_attempts
            THEN /\ i = Len(calls) => o_pc = "refine"
                 /\ i < Len(calls) =>
                      /\ calls[i + 1].op = "refine"
                      /\ calls[i + 1].arg = <<calls[i].arg, calls[i].out>>
                 /\ i + 1 < Len(calls) =>
                      /\ calls[i + 2].op # "refine"
                      /\ calls[i + 2].op = "verify" =>
                           /\ calls[i + 1].ret = "ok"
                           /\ calls[i + 2].arg = _clean_lean_code(calls[i + 1].out)
                           /\ AttemptOf(i + 2) = AttemptOf(i) + 1
            ELSE \A j \in (i + 1)..Len(calls) : calls[j].op \notin {"refine", "verify"}

\* two refinements whose results differ, the second verified and rejected on
\* the final attempt
C28_Witness ==
    /\ o_pc = "done"
    /\ max_attempts = 3
    /\ Len(RefineCalls) = 2
    /\ Len(VerifyCalls) = 3
    /\ RefineCalls[1].ret = "ok" /\ RefineCalls[2].ret = "ok"
    /\ VerifyCalls[2].arg # VerifyCalls[3].arg
    /\ VerifyCalls[1].out # VerifyCalls[2].out
    /\ VerifyCalls[3].ret = "reject"

-----------------------------------------------------------------------------
(* Termination of process_proof                                             *)

\* a run is under way: process_proof waits for a delegated call
Running == o_pc \in {"generate", "probe2", "verify", "refine", "explain"}

\* the run is over: process_proof returned its report, or the exception of
\* the pre-flight probe left it
RunOver == o_pc \in {"done", "raised"}

\* the delegated calls of the longest run: two probes, one generation,
\* max_attempts verifications, max_attempts - 1 refinements, one explanation
LongestRun == 2 * max_attempts + 3

\* C29: every run of process_proof terminates; provided each delegated call
\* returns or raises, the run ends after a bounded number of steps, at the
\* first accepted outcome or after max_attempts verifications at the latest.
C29_Terminates ==
    /\ [](Len(calls) <= LongestRun /\ VerifyCount <= max_attempts)
    /\ [][Running => Len(calls') = Len(calls) + 1]_vars
    /\ [][(Running /\ \E i \in 1..Len(calls) : Accepted(i)) => RunOver']_vars
    /\ Running ~> RunOver

\* a run of the greatest length is over
C29_Witness ==
    /\ o_pc = "done"
    /\ max_attempts = MaxAttemptsBound
    /\ Len(calls) = LongestRun

-----------------------------------------------------------------------------
(* The checker found unavailable inside the loop                            *)

\* call i is a verify_proof call whose own probe reported the checker
\* unavailable: it returned (False, the not-installed message)
UnavailableAt(i) ==
    /\ calls[i].op = "verify"
    /\ calls[i].ret = "reject"
    /\ calls[i].out = NotInstalledMsg

\* the verify_proof calls in which the checker ran
Verifications == {i \in 1..Len(calls) : calls[i].op = "verify" /\ ~UnavailableAt(i)}

\* C30: toolchain unavailability is terminal and never enters the refine
\* loop: when a probe reports the checker unavailable, also the probe made
\* inside verify_proof in the middle of the loop, that outcome is not counted
\* as a verification attempt and no refine_proof call is made with it as
\* diagnostic.
C30_UnavailableIsTerminal ==
    /\ Len(SelectSeq(vr_parts, IsAttemptHeader)) <= Cardinality(Verifications) + 1
    /\ \A k \in 1..Len(vr_parts) : vr_parts[k] # <<"failed", NotInstalledMsg>>
    /\ \A j \in 1..Len(calls) :
         calls[j].op = "refine" => calls[j].arg[2] # NotInstalledMsg
    /\ \A i \in 1..Len(calls) : \A j \in 1..Len(calls) :
         (i < j /\ (UnavailableAt(i) \/ (SecondProbeAt(i) /\ calls[i].ret = "false")))
            => calls[j].op \notin {"verify", "refine"}

-----------------------------------------------------------------------------
(* Mixed faults in the wrappers                                             *)

\* the sleep the handler of a retryable fault asks for on attempt a
WaitFor(cls, a) == IF cls = "APIConnectionError" THEN 2 ^ a ELSE 10 * (a + 1)

\* C31: for every sequence mixing connection and rate-limit faults the
\* wrapper makes at most max_retries = 3 endpoint calls, sleeps only between
\* two attempts (never after the last one), and the tag of the terminal
\* failure is the class of the fault raised on the last attempt.
C31_MixedFaults ==
    /\ Len(w_faults) <= max_retries
    /\ w_pc = "loop" => Len(w_sleeps) = Len(w_faults)
    /\ w_pc = "returned" => Len(w_sleeps) = Len(w_faults) - 1
    /\ \A i \in 1..Len(w_sleeps) :
         /\ Retryable(w_faults[i])
         /\ w_sleeps[i] = WaitFor(w_faults[i].cls, i - 1)
    /\ (w_pc = "returned" /\ Retryable(LastOutcome)) =>
         /\ Len(w_faults) = max_retries
         /\ w_result = IF LastOutcome.cls = "APIConnectionError"
                       THEN ConnectionMarker(w_fn) ELSE RateLimitMarker(w_fn)

\* a connection fault, a rate-limit fault and a connection fault again
C31_Witness ==
    /\ w_pc = "returned"
    /\ Len(w_faults) = 3
    /\ w_faults[1].cls = "APIConnectionError"
    /\ w_faults[2].cls = "RateLimitError"
    /\ w_faults[3].cls = "APIConnectionError"
    /\ w_sleeps = <<1, 20>>
    /\ w_result = ConnectionMarker(w_fn)

-----------------------------------------------------------------------------
(* What sets the stored result of a session                                 *)

\* the result POST /api/sessions stores for a session created with static
\* content
StaticResults ==
    {[null |-> FALSE, value |-> <<_format_sse_message(c, "proof_chunk")>>] :
        c \in StaticContents}

\* C32 as stated: the stored result of a session is null from its creation
\* until a run for that session has finished; nothing but the finalize write
\* at the end of a run sets it.
C32_NullUntilRunEnds ==
    s_pc # "closed" => proof_result = NullResult

\* C32 amended: the stored result is null from the creation of the session
\* until a run for it has finished, unless the session was created with
\* static content, which POST /api/sessions stores, formatted as one
\* proof_chunk message, right after it created the row; apart from that write
\* only the finalize write at the end of a run sets the result.
C32_StaticOrFinalize ==
    /\ s_pc = "idle" => proof_result \in {NullResult} \cup StaticResults
    /\ s_pc # "idle" => prior_result \in {NullResult} \cup StaticResults
    /\ s_pc \notin {"idle", "closed"} => proof_result = prior_result /\ db_calls = <<>>
    /\ (s_pc = "closed" /\ proof_result # prior_result) =>
         /\ mode = "session"
         /\ Len(db_calls) = 1
         /\ proof_result = [null |-> FALSE, value |-> db_calls[1].value]

\* a session created with static content, then a run that stored its own
\* content over it
C32_Witness ==
    /\ s_pc = "closed"
    /\ mode = "session"
    /\ prior_result \in StaticResults
    /\ proof_result # prior_result

-----------------------------------------------------------------------------
(* A client that disconnects during a session run                           *)

\* the generator of a session run was closed before its last event
Interrupted ==
    /\ s_pc = "aborted"
    /\ mode = "session"
    /\ events[Len(events)].type # "complete"

\* C33: when the client disconnects while the stream of generate_and_save is
\* still being produced, no further event is produced and no finalize write
\* is made: the stored result stays as it was before the run.
C33_DisconnectSkipsWrite ==
    Interrupted =>
        /\ ~ENABLED NextStream
        /\ db_calls = <<>>
        /\ proof_result = prior_result

\* a disconnect after some proof_chunk events of a session that had a result
C33_Witness ==
    /\ Interrupted
    /\ Count("proof_chunk") >= 1
    /\ Count("proof_end") = 0
    /\ full_proof # <<>>
    /\ ~prior_result.null

-----------------------------------------------------------------------------
(* The candidate that is explained                                          *)

\* C34: the explanation appended by process_proof is generated for the
\* candidate the verifier accepted: when the acceptance happens on a refined
\* candidate, explain_proof receives that refined candidate, not the initial
\* one.
C34_ExplainsAccepted ==
    \A i \in 1..Len(calls) : \A j \in 1..Len(calls) :
        (Accepted(i) /\ calls[j].op = "explain") => calls[j].arg = calls[i].arg

-----------------------------------------------------------------------------
(* The message that ends a run without acceptance                           *)

\* _verify_and_refine_proof ended with the message that the proof could not
\* be verified after max_attempts attempts
EndedExhausted ==
    /\ vr_parts # <<>>
    /\ vr_parts[Len(vr_parts)] = <<"exhausted", max_attempts>>

\* C35: whenever _verify_and_refine_proof ends with the failure message that
\* the proof could not be verified after max_attempts attempts, verify_proof
\* was called exactly max_attempts times in that run, also when a
\* refine_proof call raised in the middle of the loop.
C35_ExhaustedMeansAllAttempts ==
    EndedExhausted => VerifyCount = max_attempts

-----------------------------------------------------------------------------
(* The notice that Lean is not installed                                    *)

\* the run said that Lean is not installed and that the code will only be
\* generated, not verified
WarningEmitted ==
    \E i \in 1..Len(result_parts) : result_parts[i] = <<"warning", "not installed">>

\* the run is over and made both of its availability probes
BothProbesMade ==
    /\ o_pc = "done"
    /\ \E k \in 1..Len(calls) : SecondProbeAt(k) /\ calls[k].ret # "raise"

\* C36: the notice that Lean is not installed and that the code will only be
\* generated without verification is emitted in a run of process_proof if
\* and only if no verify_proof call is made in that run, for every sequence
\* of outcomes of the two availability probes of process_proof.
C36_WarningIffNoVerify ==
    BothProbesMade => (WarningEmitted <=> VerifyCount = 0)

-----------------------------------------------------------------------------
(* The sentences of the response and the proof_chunk events                 *)

NotSpace(tok) == ~IsSpace(tok)

IsSentenceToken(pair) == ~(pair[1] = "." /\ pair[2] = ".")

\* the non-blank sentences of a text, in order, as one token string: the
\* text without its blanks and newlines and without the full stops that
\* close a blank sentence, every sentence closed by one full stop
SentencesOf(text) ==
    LET u == SelectSeq(text, NotSpace)
        \* every token with the token before it
        paired == [i \in 1..Len(u) |-> <<u[i], IF i = 1 THEN "." ELSE u[i - 1]>>]
        kept == SelectSeq(paired, IsSentenceToken)
        toks == [i \in 1..Len(kept) |-> kept[i][1]]
    IN IF toks # <<>> /\ toks[Len(toks)] # "." THEN Append(toks, ".") ELSE toks

\* the number of sentences of such a token string
SentenceTotal(toks) == Cardinality({i \in 1..Len(toks) : toks[i] = "."})

\* the contents of the proof_chunk events among the first k events, joined
RECURSIVE ChunkText(_)
ChunkText(k) ==
    IF k = 0 THEN <<>>
    ELSE ChunkText(k - 1)
           \o (IF events[k].type = "proof_chunk" THEN events[k].content ELSE <<>>)

DeliveredSentences == SentencesOf(ChunkText(Len(events)))
ResponseSentences == SentencesOf(s_content)

IsPrefixOf(a, b) == Len(a) <= Len(b) /\ SubSeq(b, 1, Len(a)) = a

\* C37: in buffered mode every non-blank sentence of the generated response
\* is delivered in exactly one proof_chunk, the sentences keep their order
\* across the chunks, no chunk is empty, and all content is delivered before
\* proof_end: the sentences of the chunks sent so far are the first
\* sentences of the response, and all of them once proof_end is sent.
C37_SentencesDeliveredOnce ==
    /\ IsPrefixOf(DeliveredSentences, ResponseSentences)
    /\ Count("proof_end") = 1 => DeliveredSentences = ResponseSentences
    /\ \A c \in Positions("proof_chunk") :
         /\ events[c].content # <<>>
         /\ \A b \in Positions("proof_end") : c < b

\* a finished run whose response of two sentences went out in two chunks,
\* the second one from the buffer after the loop
C37_Witness ==
    /\ Ended
    /\ s_content = <<"X", "X", ".", "x">>
    /\ Count("proof_chunk") = 2
    /\ SentenceTotal(DeliveredSentences) = 2
    /\ Count("proof_end") = 1

\* C38: stream_proof_generation emits success only when proof content was
\* delivered: a run whose response has no choices, or whose content holds no
\* non-blank sentence, does not emit success after zero proof_chunk events.
C38_SuccessOnlyWithContent ==
    \A v \in Positions("success") : \E c \in Positions("proof_chunk") : c < v

\* C39: the result stored by the finalize write of generate_and_save equals
\* the concatenation, in emission order, of all events the run delivered to
\* the client: the status and knowledge_chunk events of generate_and_save
\* and every event of stream_proof_generation.
C39_StoredEqualsDelivered ==
    (SessionRun /\ s_pc = "closed") =>
        \A k \in 1..Len(db_calls) : db_calls[k].value = SubSeq(events, 1, db_calls[k].at)

-----------------------------------------------------------------------------
(* The candidates handed to verify_proof                                    *)

HasFenceLine(code) == \E k \in 1..Len(code) : IsFence(code[k])

\* C40: every candidate the orchestrator passes to verify_proof, the initial
\* one or a refined one, has been cleaned by _clean_lean_code: none of its
\* lines starts, after its leading blanks, with a markdown code fence, and
\* cleaning it again returns it unchanged.
C40_VerifiedCandidatesCleaned ==
    \A i \in 1..Len(calls) :
        IsVerify(calls[i]) =>
            /\ ~HasFenceLine(calls[i].arg)
            /\ _clean_lean_code(calls[i].arg) = calls[i].arg

\* verify_proof was called on a refined candidate that the service had
\* returned inside a fenced block
C40_Witness ==
    \E i \in 2..Len(calls) :
        /\ IsVerify(calls[i])
        /\ calls[i - 1].op = "refine"
        /\ calls[i - 1].ret = "ok"
        /\ HasFenceLine(calls[i - 1].out)
        /\ calls[i].arg = <<<<0, "simp">>>>

====
